---- MODULE Spec2Model ----
(***************************************************************************)
(* CrawlRead: the article scheduler (ArticleSchedulerService) as a state   *)
(* machine.  The service runs on one asyncio event loop: a coroutine runs  *)
(* without interruption from one await to the next, so every action below  *)
(* is the code between two suspension points of one coroutine.             *)
(***************************************************************************)
EXTENDS Integers, Sequences, FiniteSets, Bags, TLC

(* ------------------------------ bounds --------------------------------- *)
\* longest queue the model lets a refresh build
MaxQueue == 3
\* coroutines (refreshes and process runs) that may exist at the same time
MaxTasks == 2
\* most site/section entries one configuration holds
MaxSections == 2
\* longest listing one section parses to
MaxListing == 2
\* calls of process_next_article in the round-robin scenario
MaxCalls == 6

(* --------------------------- program constants ------------------------- *)
\* get_article_fetch_schedule().get("max_fetch_count", 10)
max_articles == 10

\* article URLs the listings can contain
URLs == {"u1", "u2"}
\* article URLs of the round-robin scenario
CycleURLs == {"u1", "u2", "u3"}
NoUrl == "none"

\* The interpreter refuses a call when the stack is deeper than its limit.
\* The limit (1000 frames by default) is far above every queue length the
\* model reaches; how many frames are left when process_next_article is
\* entered depends on the caller, so the headroom is any of these values.
RecursionHeadrooms == (MaxQueue + 1)..(2 * MaxQueue)

VARIABLES
    running,             \* self.scheduler.running
    jobs,                \* the jobs armed in self.scheduler: a bag of their ids
    article_queue,       \* self._article_queue (the stubs' URLs)
    processed_articles,  \* self._processed_articles
    current_index,       \* self._current_index
    fetching_active,     \* self._fetching_active
    tasks,               \* the coroutines in existence: a bag of their positions
    outcome,             \* how the coroutine that finished last ended
    saved_ok,            \* URLs extracted with success and then saved with success
    failing,             \* round-robin scenario: URLs that fail permanently
    visits,              \* round-robin scenario: URLs extraction was invoked for
    article_list,        \* extract_all: article_list.articles (the stubs' URLs)
    max_concurrent,      \* extract_all: self.max_concurrent
    save_html,           \* extract_all: self.save_html
    phase,               \* extract_all: where the call is
    semaphore,           \* extract_all: the value of the semaphore
    position,            \* extract_all: where each extract_with_semaphore task is
    completed,           \* extract_all: what the tasks ended with, in completion order
    html_saved,          \* extract_all: URLs whose HTML was written under data/html
    processed_results,   \* extract_all: the list the call returned
    page,                \* extraction: what the site serves for the URL being fetched
    extract_result,      \* extraction: the value extract_single_article returned
    files,               \* storage: the files in base_dir, filename -> content
    saves,               \* storage: the calls of save_article made so far
    extracted,           \* pipeline: the document handed to save_article, by URL
    last_call,           \* lifecycle: the call made last and the state it found
    found,               \* shutdown: the call made last and the state it found
    article_fetch,       \* refresh: SCHEDULER_CONFIG["article_fetch"]
    section_log,         \* refresh: what each section of the refresh ended with
    disk,                \* images: the files under the save directories, path -> content
    downloads,           \* images: the calls of download_image made so far
    encoder,             \* images: the JPEG quality loop of one download
    saving,              \* storage: the calls of save_article, suspended or ended
    codec                \* articles on disk: a title, its file name, the title read back

schedulerVars == <<running, jobs, article_queue, processed_articles, current_index,
                   fetching_active, tasks, outcome, saved_ok>>
cycleVars == <<failing, visits>>
batchVars == <<article_list, max_concurrent, save_html, phase, semaphore, position,
               completed, html_saved, processed_results>>
extractVars == <<page, extract_result>>
storeVars == <<files, saves, extracted>>
lifeVars == <<last_call>>
stopVars == <<found>>
refreshVars == <<article_fetch, section_log>>
imageVars == <<disk, downloads>>
qualityVars == <<encoder>>
saveVars == <<saving>>
titleVars == <<codec>>

vars == <<schedulerVars, cycleVars, batchVars, extractVars, storeVars, lifeVars,
          stopVars, refreshVars, imageVars, qualityVars, saveVars, titleVars>>

JobIds == {"daily_article_fetch", "article_saving", "initial_fetch"}

(* ------------------------------ helpers -------------------------------- *)
Range(s) == {s[i] : i \in 1..Len(s)}

Min(a, b) == IF a < b THEN a ELSE b

SeqsUpTo(S, n) == UNION {[1..k -> S] : k \in 0..n}

\* random.shuffle: every arrangement of the list
Shuffles(s) ==
    {[i \in 1..Len(s) |-> s[p[i]]] : p \in Permutations(1..Len(s))}

\* dict.get(key, default)
Get(d, key, default) == IF key \in DOMAIN d THEN d[key] ELSE default

\* get_article_fetch_schedule(): a new dict with the hour and the minute of
\* SCHEDULER_CONFIG["article_fetch"], and no other key of it
get_article_fetch_schedule(fetch_config) ==
    [hour |-> Get(fetch_config, "hour", 2), minute |-> Get(fetch_config, "minute", 0)]

\* max_articles = get_article_fetch_schedule().get("max_fetch_count", 10)
MaxArticles(fetch_config) ==
    Get(get_article_fetch_schedule(fetch_config), "max_fetch_count", max_articles)

\* articles[:max_articles]
Truncate(s) == SubSeq(s, 1, Min(MaxArticles(article_fetch), Len(s)))

\* every stub of the sample is appended, processed or not
NewArticlesAll(s, done) == s

RECURSIVE NewArticles(_, _)
\* the stubs of the sample whose URL is not in the processed set, in order
NewArticles(s, done) ==
    IF s = <<>> THEN <<>>
    ELSE IF Head(s) \notin done
         THEN <<Head(s)>> \o NewArticles(Tail(s), done)
         ELSE NewArticles(Tail(s), done)

(* ------------------------------ coroutines ----------------------------- *)
\* a coroutine's position: the function it runs, the await it is suspended
\* at ("pending": created, body not entered), and its locals (article.url,
\* the site/section entries still to fetch, the value of result)
Task(op, pc, url, left, result) ==
    [op |-> op, pc |-> pc, url |-> url, left |-> left, result |-> result]

Pending(op) == Task(op, "pending", NoUrl, 0, "none")

Live == BagToSet(tasks)

\* coroutines at position r
Count(r) == IF r \in Live THEN CopiesIn(r, tasks) ELSE 0

\* room for one more coroutine
CanSpawn == BagCardinality(tasks) < MaxTasks

Without(tk, r) == tk (-) SetToBag({r})

With(tk, r) == tk (+) SetToBag({r})

\* coroutine r moves to position r2
Moved(r, r2) == With(Without(tasks, r), r2)

\* coroutines inside the body of fetch_article_list, between flag set and clear
Refreshing == {r \in Live : r.op = "fetch_article_list" /\ r.pc # "pending"}

(* ----------------------------- start / shutdown ------------------------ *)
\* scheduler.add_job(..., id=id, replace_existing=True): the job takes the
\* place of the job armed under the same id, if there is one
add_job(store, id) ==
    [i \in BagToSet(store) \cup {id} |-> IF i = id THEN 1 ELSE store[i]]

\* the three calls of add_job in start()
Armed(store) ==
    add_job(add_job(add_job(store, "daily_article_fetch"), "article_saving"),
            "initial_fetch")

\* the test of scheduler.running left out: every call adds the three jobs
startAlways ==
    /\ jobs' = Armed(jobs)
    /\ running' = TRUE
    /\ UNCHANGED <<article_queue, processed_articles, current_index,
                   fetching_active, tasks, outcome, saved_ok>>

\* neither the test of scheduler.running nor the replacement of a job by id:
\* every call adds three more jobs
startDoubleArms ==
    /\ jobs' = jobs (+) SetToBag(JobIds)
    /\ running' = TRUE
    /\ UNCHANGED <<article_queue, processed_articles, current_index,
                   fetching_active, tasks, outcome, saved_ok>>

\* if not self.scheduler.running: the three jobs are added (replace_existing)
\* and the scheduler is started
start ==
    /\ IF ~running
       THEN /\ jobs' = Armed(jobs)
            /\ running' = TRUE
       ELSE UNCHANGED <<jobs, running>>
    /\ UNCHANGED <<article_queue, processed_articles, current_index,
                   fetching_active, tasks, outcome, saved_ok>>

\* the processed set and the cursor are reset with the queue
shutdownResets ==
    /\ IF running
       THEN /\ jobs' = EmptyBag
            /\ running' = FALSE
       ELSE UNCHANGED <<jobs, running>>
    /\ article_queue' = <<>>
    /\ processed_articles' = {}
    /\ current_index' = 0
    /\ UNCHANGED <<fetching_active, tasks, outcome, saved_ok>>

\* the queue is cleared only when the scheduler was running
shutdownGuarded ==
    /\ IF running
       THEN /\ jobs' = EmptyBag
            /\ running' = FALSE
            /\ article_queue' = <<>>
       ELSE UNCHANGED <<jobs, running, article_queue>>
    /\ UNCHANGED <<processed_articles, current_index, fetching_active, tasks,
                   outcome, saved_ok>>

\* the coroutines in existence are cancelled with the timers
shutdownAborts ==
    /\ IF running
       THEN /\ jobs' = EmptyBag
            /\ running' = FALSE
       ELSE UNCHANGED <<jobs, running>>
    /\ article_queue' = <<>>
    /\ tasks' = EmptyBag
    /\ UNCHANGED <<processed_articles, current_index, fetching_active, outcome,
                   saved_ok>>

\* self.scheduler.shutdown() removes the jobs; then the queue is cleared.  The
\* processed set and the cursor are not touched, and coroutines suspended at
\* an await stay in existence.
shutdown ==
    /\ IF running
       THEN /\ jobs' = EmptyBag
            /\ running' = FALSE
       ELSE UNCHANGED <<jobs, running>>
    /\ article_queue' = <<>>
    /\ UNCHANGED <<processed_articles, current_index, fetching_active, tasks,
                   outcome, saved_ok>>

(* ------------------------------- triggers ------------------------------ *)
\* A trigger creates a coroutine; its body is entered at a later step.  The
\* routes below create coroutines whether or not the scheduler runs, so the
\* jobs add no interleaving the routes do not already give.
\* CronTrigger job 'daily_article_fetch'
CronFetch ==
    /\ running /\ BagIn("daily_article_fetch", jobs)
    /\ CanSpawn
    /\ tasks' = With(tasks, Pending("fetch_article_list"))
    /\ UNCHANGED <<running, jobs, article_queue, processed_articles, current_index,
                   fetching_active, outcome, saved_ok>>

\* 'date' job 'initial_fetch': runs once and is gone
InitialFetch ==
    /\ running /\ BagIn("initial_fetch", jobs)
    /\ CanSpawn
    /\ jobs' = jobs (-) SetToBag({"initial_fetch"})
    /\ tasks' = With(tasks, Pending("fetch_article_list"))
    /\ UNCHANGED <<running, article_queue, processed_articles, current_index,
                   fetching_active, outcome, saved_ok>>

\* IntervalTrigger job 'article_saving'
IntervalProcess ==
    /\ running /\ BagIn("article_saving", jobs)
    /\ CanSpawn
    /\ tasks' = With(tasks, Pending("process_next_article"))
    /\ UNCHANGED <<running, jobs, article_queue, processed_articles, current_index,
                   fetching_active, outcome, saved_ok>>

\* POST /scheduler/fetch-now
trigger_article_fetch ==
    /\ CanSpawn
    /\ tasks' = With(tasks, Pending("fetch_article_list"))
    /\ UNCHANGED <<running, jobs, article_queue, processed_articles, current_index,
                   fetching_active, outcome, saved_ok>>

\* POST /scheduler/process-next
trigger_process_next ==
    /\ CanSpawn
    /\ tasks' = With(tasks, Pending("process_next_article"))
    /\ UNCHANGED <<running, jobs, article_queue, processed_articles, current_index,
                   fetching_active, outcome, saved_ok>>

(* --------------------------- fetch_article_list ------------------------ *)
\* the guard left out: every trigger enters the body
AlreadyFetchingIgnored == FALSE

\* if self._fetching_active: the test that guards the body
AlreadyFetching == fetching_active

\* the finally clause left out: the coroutine ends with the flag still set
ReleaseNoClear(r) ==
    /\ tasks' = Without(tasks, r)
    /\ fetching_active' = TRUE
    /\ outcome' = "returned"

\* finally: self._fetching_active = False, and the coroutine ends
Release(r) ==
    /\ tasks' = Without(tasks, r)
    /\ fetching_active' = FALSE
    /\ outcome' = "returned"

\* the for loop moves to the next site/section or, after the last one, the
\* coroutine ends through the finally clause
NextSection(r, left) ==
    IF left > 0
    THEN /\ tasks' = Moved(r, Task(r.op, "fetch_content", NoUrl, left, "none"))
         /\ UNCHANGED <<fetching_active, outcome>>
    ELSE Release(r)

\* entry of fetch_article_list up to its first await
FetchEnter(r, config, sections) ==
    /\ r \in Live /\ r = Pending("fetch_article_list")
    /\ IF AlreadyFetching
       THEN \* a refresh is running: log and return, outside the try
            /\ tasks' = Without(tasks, r)
            /\ outcome' = "skipped"
            /\ UNCHANGED fetching_active
       ELSE CASE config = "raise" -> Release(r)
              [] config # "raise" /\ sections = 0 -> Release(r)
              [] OTHER ->
                    /\ tasks' = Moved(r, Task(r.op, "fetch_content", NoUrl, sections, "none"))
                    /\ fetching_active' = TRUE
                    /\ UNCHANGED outcome
    /\ UNCHANGED <<running, jobs, article_queue, processed_articles, current_index,
                   saved_ok>>

\* a section whose fetch failed ends the refresh
FetchContentDoneAborts(r, res) ==
    /\ r \in Live /\ r.op = "fetch_article_list" /\ r.pc = "fetch_content"
    /\ CASE res \in {"raise", "fail"} -> Release(r)
         [] OTHER -> /\ tasks' = Moved(r, Task(r.op, "parse_article_list", NoUrl, r.left, "none"))
                     /\ UNCHANGED <<fetching_active, outcome>>
    /\ UNCHANGED <<running, jobs, article_queue, processed_articles, current_index,
                   saved_ok>>

\* await self.website_service.fetch_content(website, section) returns
FetchContentDone(r, res) ==
    /\ r \in Live /\ r.op = "fetch_article_list" /\ r.pc = "fetch_content"
    /\ CASE res = "raise" -> Release(r)
         [] res = "fail" -> NextSection(r, r.left - 1)
         [] OTHER -> /\ tasks' = Moved(r, Task(r.op, "parse_article_list", NoUrl, r.left, "none"))
                     /\ UNCHANGED <<fetching_active, outcome>>
    /\ UNCHANGED <<running, jobs, article_queue, processed_articles, current_index,
                   saved_ok>>

\* the sample takes the place of the queue
ParseDoneReplaces(r, res, articles) ==
    /\ r \in Live /\ r.op = "fetch_article_list" /\ r.pc = "parse_article_list"
    /\ CASE res = "raise" ->
              /\ Release(r)
              /\ UNCHANGED article_queue
         [] res = "fail" \/ (res = "success" /\ articles = <<>>) ->
              /\ NextSection(r, r.left - 1)
              /\ UNCHANGED article_queue
         [] OTHER ->
              \E shuffled \in Shuffles(articles) :
                  /\ article_queue' = NewArticles(Truncate(shuffled), processed_articles)
                  /\ NextSection(r, r.left - 1)
    /\ UNCHANGED <<running, jobs, processed_articles, current_index, saved_ok>>

\* await self.article_parser.parse_article_list(...) returns; the sample is
\* shuffled, cut and appended before the next await
ParseDone(r, res, articles) ==
    /\ r \in Live /\ r.op = "fetch_article_list" /\ r.pc = "parse_article_list"
    /\ CASE res = "raise" ->
              /\ Release(r)
              /\ UNCHANGED article_queue
         [] res = "fail" \/ (res = "success" /\ articles = <<>>) ->
              /\ NextSection(r, r.left - 1)
              /\ UNCHANGED article_queue
         [] OTHER ->
              \E shuffled \in Shuffles(articles) :
                  /\ article_queue' = article_queue
                                        \o NewArticles(Truncate(shuffled), processed_articles)
                  /\ NextSection(r, r.left - 1)
    /\ UNCHANGED <<running, jobs, processed_articles, current_index, saved_ok>>

(* -------------------------- process_next_article ----------------------- *)
\* the processed-set test left out
IsProcessedIgnored(url, done) == FALSE

\* if article.url in self._processed_articles
IsProcessed(url, done) == url \in done

RECURSIVE NextUnprocessedStuck(_, _, _, _)
\* the cursor is not advanced after the stub is taken
NextUnprocessedStuck(q, done, idx, room) ==
    IF room = 0
    THEN [res |-> "RecursionError", url |-> NoUrl, idx |-> idx]
    ELSE LET i == IF idx >= Len(q) THEN 0 ELSE idx
             article == q[i + 1]
         IN  IF IsProcessed(article, done)
             THEN NextUnprocessedStuck(q, done, i, room - 1)
             ELSE [res |-> "extract", url |-> article, idx |-> i]

RECURSIVE NextUnprocessed(_, _, _, _)
\* The synchronous part of process_next_article on a non-empty queue: wrap
\* the cursor, take the stub, advance, and recurse while the stub's URL is in
\* the processed set.  room is the number of nested calls the interpreter
\* still allows.
NextUnprocessed(q, done, idx, room) ==
    IF room = 0
    THEN [res |-> "RecursionError", url |-> NoUrl, idx |-> idx]
    ELSE LET i == IF idx >= Len(q) THEN 0 ELSE idx
             article == q[i + 1]
         IN  IF IsProcessed(article, done)
             THEN NextUnprocessed(q, done, i + 1, room - 1)
             ELSE [res |-> "extract", url |-> article, idx |-> i + 1]

\* no refresh is started on an empty queue
EmptyQueueNoRefresh(r) == Without(tasks, r)

\* empty queue: if not self._fetching_active:
\* asyncio.create_task(self.fetch_article_list()); return
EmptyQueue(r) ==
    IF ~fetching_active
    THEN Moved(r, Pending("fetch_article_list"))
    ELSE Without(tasks, r)

\* entry of process_next_article up to its first await
ProcessEnter(r, room) ==
    /\ r \in Live /\ r = Pending("process_next_article")
    /\ IF article_queue = <<>>
       THEN /\ tasks' = EmptyQueue(r)
            /\ outcome' = "returned"
            /\ UNCHANGED current_index
       ELSE LET n == NextUnprocessed(article_queue, processed_articles, current_index, room)
            IN  /\ current_index' = n.idx
                /\ IF n.res = "RecursionError"
                   THEN /\ tasks' = Without(tasks, r)
                        /\ outcome' = "raised"
                   ELSE /\ tasks' = Moved(r, Task(r.op, "extract", n.url, 0, "none"))
                        /\ UNCHANGED outcome
    /\ UNCHANGED <<running, jobs, article_queue, processed_articles, fetching_active,
                   saved_ok>>

\* any returned result is taken for a success
ExtractSucceededAlways(res) == TRUE

\* if result.get('success')
ExtractSucceeded(res) == res = "success"

\* await self.article_extractor.extract_single_article_by_url(url) returns
ExtractDone(r, res) ==
    /\ r \in Live /\ r.op = "process_next_article" /\ r.pc = "extract"
    /\ IF res # "raise" /\ ExtractSucceeded(res)
       THEN /\ tasks' = Moved(r, Task(r.op, "save_article", r.url, 0, res))
            /\ UNCHANGED outcome
       ELSE \* result without success, or an exception: logged
            /\ tasks' = Without(tasks, r)
            /\ outcome' = "returned"
    /\ UNCHANGED <<running, jobs, article_queue, processed_articles, current_index,
                   fetching_active, saved_ok>>

\* the URL is recorded whatever save_article returned
MarkProcessedAlways(done, url, save_result) ==
    IF save_result # "raise" THEN done \cup {url} ELSE done

\* if save_result: self._processed_articles.add(article.url)
MarkProcessed(done, url, save_result) ==
    IF save_result = "true" THEN done \cup {url} ELSE done

\* await self.storage_service.save_article(result) returns
SaveDone(r, save_result) ==
    /\ r \in Live /\ r.op = "process_next_article" /\ r.pc = "save_article"
    /\ processed_articles' = MarkProcessed(processed_articles, r.url, save_result)
    /\ saved_ok' = IF r.result = "success" /\ save_result = "true"
                   THEN saved_ok \cup {r.url} ELSE saved_ok
    /\ tasks' = Without(tasks, r)
    /\ outcome' = "returned"
    /\ UNCHANGED <<running, jobs, article_queue, current_index, fetching_active>>

(* ----------------------------- environment ----------------------------- *)
\* get_all_website_sections() returns the configured entries or raises
Configs == {"loaded", "raise"}
FetchResults == {"success", "fail", "raise"}
ParseResults == {"success", "fail", "raise"}
ExtractResults == {"success", "fail", "raise"}
SaveResults == {"true", "false", "raise"}
\* listings that keep the queue within the model's bound
Listings == {s \in SeqsUpTo(URLs, MaxListing) : Len(article_queue) + Len(s) <= MaxQueue}

\* the coroutine that finished last returned, returned at once because a
\* refresh was running, or ended with an exception
Outcomes == {"none", "returned", "skipped", "raised"}

(* ------------------------------ documents ------------------------------ *)
\* most body blocks (p, h2-h4, blockquote, ul/ol, figure) that survive filtering
MaxBlocks == 2

\* headlines the pages can carry; "a/b" holds a character that is not allowed
\* in a file name
Titles == {"a/b", "a_b"}
\* the page has neither h1#headline / h1.eza-title nor meta og:title
NoHeadline == "none"

\* what a document is made of: an error message, or the parts extracted from
\* the page served for a URL
Message(msg) == [kind |-> "message", msg |-> msg, of |-> NoUrl, parts |-> 0]
ArticleBody(of, parts) == [kind |-> "article", msg |-> "", of |-> of, parts |-> parts]

\* the empty string (or None) as content
EmptyContent ==
    [title |-> "", body |-> [kind |-> "empty", msg |-> "", of |-> NoUrl, parts |-> 0]]
\* text without a title tag; of tells one such text from another
PlainContent(of) ==
    [title |-> "", body |-> [kind |-> "plain", msg |-> "", of |-> of, parts |-> 0]]
\* what is in a file whose write broke off after open(path, 'w')
PartialContent ==
    [title |-> "", body |-> [kind |-> "partial", msg |-> "", of |-> NoUrl, parts |-> 0]]

\* _create_html_document: the template around title and body_content; never
\* the empty string
create_html_document(body_content, title) == [title |-> title, body |-> body_content]
\* the default of the title parameter
DefaultTitle == "Article"

\* MonitorArticle(url=..., title=...)
MonitorArticle(url, title) == [url |-> url, title |-> title]

(* ------------------------------ make_request --------------------------- *)
\* what the site does with the GET: no response (httpx.RequestError), a
\* response outside 2xx (raise_for_status), a 2xx response with an empty
\* body, a 2xx response with markup
Nets == {"request_error", "http_status_error", "ok_empty", "ok_html"}

\* HttpFetchResult: error is set on every except branch; content is the
\* response text, absent when there was no response
make_request(p) ==
    CASE p.net = "request_error"     -> [error |-> TRUE,  content |-> FALSE]
      [] p.net = "http_status_error" -> [error |-> TRUE,  content |-> TRUE]
      [] p.net = "ok_empty"          -> [error |-> FALSE, content |-> FALSE]
      [] OTHER                       -> [error |-> FALSE, content |-> TRUE]

(* -------------------------- extract_body_from_html --------------------- *)
\* _extract_article_metadata returned a non-empty dict
HasMetadata(p) == p.headline # NoHeadline \/ p.byline

\* article_metadata.get('title', default)
MetadataTitle(p, default) == IF p.headline # NoHeadline THEN p.headline ELSE default

\* len(output_html_parts): the header when there is metadata, the main image
\* when there is one, then one part for each surviving body block
OutputParts(p) ==
    (IF HasMetadata(p) THEN 1 ELSE 0) + (IF p.main_image THEN 1 ELSE 0) + p.blocks

\* if not output_html_parts or (len(output_html_parts) <= 2 and main_image_html)
NothingExtracted(p) ==
    OutputParts(p) = 0 \/ (OutputParts(p) <= 2 /\ p.main_image)

extract_body_from_html(p) ==
    IF ~p.container
    THEN create_html_document(Message("no_container"), MetadataTitle(p, "Error"))
    ELSE IF NothingExtracted(p)
    THEN create_html_document(Message("no_content"), MetadataTitle(p, "Error"))
    ELSE create_html_document(ArticleBody(p.of, OutputParts(p)),
                              MetadataTitle(p, "Extracted Article"))

(* -------------------------- extract_single_article --------------------- *)
\* the content of the fetch-failure result left empty
FetchFailureContentEmpty == EmptyContent

\* self._create_html_document(f"错误：无法从URL获取内容。{fetch_result.error}")
FetchFailureContent == create_html_document(Message("fetch_failed"), DefaultTitle)

\* the value returned on every path: the fetch failed, the body extraction
\* raised (except Exception), or extract_body_from_html returned
extract_single_article(article, p) ==
    LET fetch_result == make_request(p)
    IN  IF fetch_result.error \/ ~fetch_result.content
        THEN [url |-> article.url, title |-> article.title,
              content |-> FetchFailureContent, success |-> FALSE]
        ELSE IF p.raises
        THEN [url |-> article.url, title |-> article.title,
              content |-> create_html_document(Message("exception"), DefaultTitle),
              success |-> FALSE]
        ELSE [url |-> article.url, title |-> article.title,
              content |-> extract_body_from_html(p), success |-> TRUE]

\* no call of extract_single_article has returned
NoResult == [url |-> NoUrl, title |-> "", content |-> EmptyContent, success |-> FALSE]

\* the pages one URL can serve
PagesOf(u) ==
    [net : Nets, container : BOOLEAN, headline : Titles \cup {NoHeadline},
     byline : BOOLEAN, main_image : BOOLEAN, blocks : 0..MaxBlocks,
     raises : BOOLEAN, of : {u}]

NoPage == [net |-> "request_error", container |-> FALSE, headline |-> NoHeadline,
           byline |-> FALSE, main_image |-> FALSE, blocks |-> 0, raises |-> FALSE,
           of |-> NoUrl]

(* ------------------------------- storage ------------------------------- *)
\* re.sub(r'[\\/*?:"<>|]', '_', name)[:100]; of the names the model builds
\* only "a/b" holds a character of the class, and none has over 100 characters
sanitize_filename(name) == IF name = "a/b" THEN "a_b" ELSE name

\* re.search(r'<title>(.*?)</title>', content): the documents of
\* _create_html_document carry a title tag, other content does not
HasTitleTag(content) == content.body.kind \in {"message", "article"}

\* url.split('/')[-1].replace('-', ' ').title()
Slug(url) == IF url = "u1" THEN "U1" ELSE IF url = "u2" THEN "U2" ELSE url

\* f"article_{int(asyncio.get_event_loop().time())}": the name depends on the
\* clock of the event loop
Clocks == {"article_1", "article_2"}

\* the title the file is named after
DerivedTitle(article_data, now) ==
    IF article_data.title = "" /\ article_data.content # EmptyContent
    THEN IF HasTitleTag(article_data.content)
         THEN article_data.content.title
         ELSE IF article_data.url # ""
         THEN Slug(article_data.url)
         ELSE now
    ELSE article_data.title

\* the file name without its directory and its ".html"
Filename(article_data, now) == sanitize_filename(DerivedTitle(article_data, now))

\* _write_to_file in the executor: the file is written, open() raises and no
\* file appears, or write() raises after open() created the file
WriteOutcomes == {"ok", "open_fails", "write_fails"}

\* the existence test left out: the file is written over
ExistsNever(fs, fname) == FALSE

\* os.path.exists(save_path)
Exists(fs, fname) == fname \in DOMAIN fs

\* what the except clause returns, were a failed write reported as a success
WriteFailedTrue == TRUE

\* except Exception as e: ... return False
WriteFailed == FALSE

\* save_article: the value returned, the files afterwards, and whether the
\* call wrote
save_article(fs, article_data, now, write) ==
    LET fname == Filename(article_data, now)
    IN  IF Exists(fs, fname)
        THEN [ret |-> TRUE, files |-> fs, wrote |-> FALSE, fname |-> fname]
        ELSE CASE write = "ok" ->
                    [ret |-> TRUE, wrote |-> TRUE, fname |-> fname,
                     files |-> [f \in DOMAIN fs \cup {fname} |->
                                   IF f = fname THEN article_data.content ELSE fs[f]]]
               [] write = "open_fails" ->
                    [ret |-> WriteFailed, files |-> fs, wrote |-> FALSE, fname |-> fname]
               [] OTHER ->
                    [ret |-> WriteFailed, wrote |-> FALSE, fname |-> fname,
                     files |-> [f \in DOMAIN fs \cup {fname} |->
                                   IF f = fname THEN PartialContent ELSE fs[f]]]

\* base_dir holds no file
NoFiles == [f \in {} |-> EmptyContent]

(* ---------------------------- download_image --------------------------- *)
\* the image URLs handed to download_image: none, an upper-case extension, no
\* extension, an extension that is not an image format
ImageURLs == {"", "http://h/a.PNG", "http://h/b", "http://h/c.svg"}
SaveDirs == {"data/images", "data/other"}

\* if not url or not url.strip()
Blank(url) == url = ""

\* hashlib.md5(url.encode()).hexdigest()[:10]: a value the URL determines
\* (two URLs of the model never share it)
url_hash(url) == [md5 |-> url]

\* os.path.splitext(urlparse(url).path)[1]
splitext(url) ==
    CASE url = "http://h/a.PNG" -> ".PNG"
      [] url = "http://h/c.svg" -> ".svg"
      [] OTHER -> ""

\* str.lower()
lower(ext) ==
    CASE ext = ".PNG" -> ".png"
      [] OTHER -> ext

ImageExts == {".jpg", ".jpeg", ".png", ".gif", ".webp"}

\* the extension of the file: the URL's own if it is one of the five image
\* extensions (none of them longer than five characters), else '.jpg'
Ext(url) ==
    LET ext == lower(splitext(url))
    IN  IF ext = "" \/ ext \notin ImageExts THEN ".jpg" ELSE ext

\* os.path.join(save_dir, f"{url_hash}{ext}")
Filepath(url, save_dir) == [dir |-> save_dir, hash |-> url_hash(url), ext |-> Ext(url)]

NoPath == [dir |-> "", hash |-> url_hash(""), ext |-> ""]

NoImages == [f \in {} |-> "none"]

\* the file-exists test left out: every call downloads
os_path_existsNever(fs, filepath) == FALSE

\* os.path.exists(filepath)
os_path_exists(fs, filepath) == filepath \in DOMAIN fs

\* with open(filepath, 'wb') as f: f.write(data).  A file that was opened
\* and not written to the end is left behind, cut short.
Write(fs, filepath, data, w) ==
    CASE w = "ok" -> [f \in DOMAIN fs \cup {filepath} |-> IF f = filepath THEN data ELSE fs[f]]
      [] w = "write_fails" ->
            [f \in DOMAIN fs \cup {filepath} |-> IF f = filepath THEN "cut" ELSE fs[f]]
      [] OTHER -> fs

\* the file was opened for writing (created or truncated)
Opened(w) == IF w = "open_fails" THEN 0 ELSE 1

\* what download_image returned, or the exception it ended with
Ret(ok, filepath, error) == [ok |-> ok, path |-> filepath, error |-> error]

NoRet == Ret(FALSE, NoPath, "none")

\* a call of download_image: its arguments, the await it is suspended at
\* ("done": it returned, "raised": it ended with an exception), whether it
\* sent a GET request, what response.read() gave it ("none": not read), how
\* often it opened the file for writing, and what it returned
Download(url, save_dir, pc, requested, wrote, ret) ==
    [url |-> url, dir |-> save_dir, pc |-> pc, requested |-> requested,
     body |-> "none", wrote |-> wrote, ret |-> ret]

\* download_image up to its first await: the URL test, os.makedirs (outside
\* the try), the path, the file-exists test, and the request sent
Entered(fs, url, save_dir, mk) ==
    LET filepath == Filepath(url, save_dir)
    IN  CASE Blank(url) ->
               Download(url, save_dir, "done", FALSE, 0, Ret(FALSE, NoPath, "Empty URL"))
          [] ~Blank(url) /\ mk # "ok" ->
               Download(url, save_dir, "raised", FALSE, 0, Ret(FALSE, NoPath, mk))
          [] ~Blank(url) /\ mk = "ok" /\ os_path_exists(fs, filepath) ->
               Download(url, save_dir, "done", FALSE, 0, Ret(TRUE, filepath, "none"))
          [] OTHER ->
               Download(url, save_dir, "get", TRUE, 0, NoRet)

\* what session.get ends with
Responses == {"200", "404", "TimeoutError", "ClientError"}

\* async with session.get(url, timeout=timeout) as response: status test
Responded(c, resp) ==
    CASE resp = "200" -> [c EXCEPT !.pc = "read"]
      [] resp = "404" -> [c EXCEPT !.pc = "done", !.ret = Ret(FALSE, NoPath, "HTTP error")]
      [] OTHER -> [c EXCEPT !.pc = "done", !.ret = Ret(FALSE, NoPath, resp)]

\* what response.read() gives: nothing, an image PIL decodes, bytes PIL
\* does not decode, or an exception
Bodies == {"empty", "image", "bytes", "ClientError"}

\* await response.read() returns; the image is processed and written, and
\* when processing or writing raises the bytes as received are written
\* instead; an exception of that second write ends the call with a failure.
\* The result is the call and the files.
ReadDone(fs, c, body, w1, w2) ==
    LET filepath == Filepath(c.url, c.dir)
        first == IF body = "image" THEN Write(fs, filepath, "processed", w1) ELSE fs
        opened1 == IF body = "image" THEN Opened(w1) ELSE 0
        second == Write(first, filepath, "received", w2)
    IN  CASE body = "empty" ->
               [call |-> [c EXCEPT !.pc = "done", !.body = body,
                                   !.ret = Ret(FALSE, NoPath, "Empty response")],
                files |-> fs]
          [] body = "ClientError" ->
               [call |-> [c EXCEPT !.pc = "done", !.body = body,
                                   !.ret = Ret(FALSE, NoPath, body)],
                files |-> fs]
          [] body = "image" /\ w1 = "ok" ->
               [call |-> [c EXCEPT !.pc = "done", !.body = body, !.wrote = 1,
                                   !.ret = Ret(TRUE, filepath, "none")],
                files |-> first]
          [] OTHER ->
               [call |-> [c EXCEPT !.pc = "done", !.body = body,
                                   !.wrote = opened1 + Opened(w2),
                                   !.ret = IF w2 = "ok"
                                           THEN Ret(TRUE, filepath, "none")
                                           ELSE Ret(FALSE, NoPath, w2)],
                files |-> second]

\* localize(image_url): the local path when download_image returned success,
\* else the image URL as it was given
localize(c) ==
    IF c.ret.ok
    THEN [local |-> TRUE, path |-> c.ret.path, url |-> ""]
    ELSE [local |-> FALSE, path |-> NoPath, url |-> c.url]

(* --------------------------- components at rest ------------------------ *)
\* Each specification below drives one component; the variables of the
\* others keep these values.
CycleIdle == failing = {} /\ visits = <<>>

BatchIdle ==
    /\ article_list = <<>>
    /\ max_concurrent = 1
    /\ save_html = FALSE
    /\ phase = "idle"
    /\ semaphore = 0
    /\ position = <<>>
    /\ completed = <<>>
    /\ html_saved = {}
    /\ processed_results = <<>>

ExtractIdle == page = NoPage /\ extract_result = NoResult

StoreIdle ==
    /\ files = NoFiles
    /\ saves = <<>>
    /\ extracted = [u \in URLs |-> EmptyContent]

LifeIdle == last_call = [op |-> "none", n |-> 0, running |-> FALSE, jobs |-> EmptyBag]

\* no call of shutdown() made yet
NotCalled ==
    [op |-> "none", n |-> 0, running |-> FALSE, jobs |-> EmptyBag, queue |-> <<>>,
     cursor |-> 0, processed |-> {}, tasks |-> EmptyBag]

StopIdle == found = NotCalled

\* SCHEDULER_CONFIG["article_fetch"] when scheduler.yaml sets nothing beyond
\* the defaults
DefaultFetch == [hour |-> 2, minute |-> 0, max_fetch_count |-> max_articles]

RefreshIdle == article_fetch = DefaultFetch /\ section_log = <<>>

ImageIdle == disk = NoImages /\ downloads = <<>>

\* no image is being encoded
NotEncoding ==
    [pc |-> "idle", format |-> "JPEG", quality |-> 0, max_file_size |-> 0,
     current_quality |-> 0, encodings |-> <<>>, written |-> 0]

QualityIdle == encoder = NotEncoding

SaveIdle == saving = <<>>

\* no title is being encoded
NoCodec == [pc |-> "idle", title |-> <<>>, article_id |-> <<>>, filename |-> <<>>,
            decoded |-> <<>>]

TitleIdle == codec = NoCodec

beyondScheduler == <<cycleVars, batchVars, extractVars, storeVars, lifeVars,
    stopVars, refreshVars, imageVars,
    qualityVars, saveVars, titleVars>>
beyondCycle == <<batchVars, extractVars, storeVars, lifeVars,
    stopVars, refreshVars, imageVars,
    qualityVars, saveVars, titleVars>>
beyondBatch == <<schedulerVars, cycleVars, extractVars, storeVars, lifeVars,
    stopVars, refreshVars, imageVars,
    qualityVars, saveVars, titleVars>>
beyondExtract == <<schedulerVars, cycleVars, batchVars, storeVars, lifeVars,
    stopVars, refreshVars, imageVars,
    qualityVars, saveVars, titleVars>>
beyondStore == <<schedulerVars, cycleVars, batchVars, extractVars, lifeVars,
    stopVars, refreshVars, imageVars,
    qualityVars, saveVars, titleVars>>

(* ---------------------------- specification ---------------------------- *)
\* the service after ArticleSchedulerService.__init__
Constructed ==
    /\ running = FALSE
    /\ jobs = EmptyBag
    /\ article_queue = <<>>
    /\ processed_articles = {}
    /\ current_index = 0
    /\ fetching_active = FALSE
    /\ tasks = EmptyBag
    /\ outcome = "none"
    /\ saved_ok = {}

Init ==
    /\ Constructed
    /\ CycleIdle /\ BatchIdle /\ ExtractIdle /\ StoreIdle /\ LifeIdle /\ StopIdle /\ RefreshIdle /\ ImageIdle /\ QualityIdle /\ SaveIdle /\ TitleIdle

Next ==
    \/ start /\ UNCHANGED beyondScheduler
    \/ shutdown /\ UNCHANGED beyondScheduler
    \/ CronFetch /\ UNCHANGED beyondScheduler
    \/ InitialFetch /\ UNCHANGED beyondScheduler
    \/ IntervalProcess /\ UNCHANGED beyondScheduler
    \/ trigger_article_fetch /\ UNCHANGED beyondScheduler
    \/ trigger_process_next /\ UNCHANGED beyondScheduler
    \/ \E r \in Live, config \in Configs :
          \E sections \in IF config = "raise" THEN {0} ELSE 0..MaxSections :
              FetchEnter(r, config, sections) /\ UNCHANGED beyondScheduler
    \/ \E r \in Live, res \in FetchResults :
          FetchContentDone(r, res) /\ UNCHANGED beyondScheduler
    \/ \E r \in Live, res \in ParseResults :
          \E articles \in IF res = "success" THEN Listings ELSE {<<>>} :
              ParseDone(r, res, articles) /\ UNCHANGED beyondScheduler
    \/ \E r \in Live, room \in RecursionHeadrooms :
          ProcessEnter(r, room) /\ UNCHANGED beyondScheduler
    \/ \E r \in Live, res \in ExtractResults :
          ExtractDone(r, res) /\ UNCHANGED beyondScheduler
    \/ \E r \in Live, save_result \in SaveResults :
          SaveDone(r, save_result) /\ UNCHANGED beyondScheduler

Spec == Init /\ [][Next]_vars

(* ------------------------ round-robin scenario -------------------------- *)
\* N distinct stubs are queued, one of them fails permanently, and
\* process_next_article is called again and again with no refresh between.
Injective(s) == \A i, j \in 1..Len(s) : s[i] = s[j] => i = j

InitCycle ==
    /\ running = FALSE
    /\ jobs = EmptyBag
    /\ article_queue \in {s \in SeqsUpTo(CycleURLs, MaxQueue) : Len(s) >= 1 /\ Injective(s)}
    /\ processed_articles = {}
    /\ current_index = 0
    /\ fetching_active = FALSE
    /\ tasks = EmptyBag
    /\ outcome = "none"
    /\ saved_ok = {}
    /\ failing \in {{u} : u \in Range(article_queue)}
    /\ visits = <<>>
    /\ BatchIdle /\ ExtractIdle /\ StoreIdle /\ LifeIdle /\ StopIdle /\ RefreshIdle /\ ImageIdle /\ QualityIdle /\ SaveIdle /\ TitleIdle

\* the next call is made when the one before has ended
CycleCall ==
    /\ tasks = EmptyBag
    /\ Len(visits) < MaxCalls
    /\ trigger_process_next
    /\ UNCHANGED <<failing, visits>>
    /\ UNCHANGED beyondCycle

CycleEnter ==
    \E r \in Live, room \in RecursionHeadrooms :
        /\ ProcessEnter(r, room)
        /\ visits' = IF \E u \in CycleURLs : Task(r.op, "extract", u, 0, "none") \in BagToSet(tasks')
                      THEN Append(visits, (CHOOSE t \in BagToSet(tasks') : TRUE).url)
                      ELSE visits
        /\ UNCHANGED failing
        /\ UNCHANGED beyondCycle

CycleExtractDone ==
    \E r \in Live :
        \E res \in IF r.url \in failing THEN ExtractResults ELSE {"success"} :
            ExtractDone(r, res) /\ UNCHANGED <<failing, visits>> /\ UNCHANGED beyondCycle

CycleSaveDone ==
    \E r \in Live :
        \E save_result \in IF r.url \in failing THEN {"false", "raise"} ELSE {"true"} :
            SaveDone(r, save_result) /\ UNCHANGED <<failing, visits>> /\ UNCHANGED beyondCycle

NextCycle == CycleCall \/ CycleEnter \/ CycleExtractDone \/ CycleSaveDone

SpecCycle == InitCycle /\ [][NextCycle]_vars

(* ------------------------------ extract_all ---------------------------- *)
\* longest article list handed to extract_all
MaxBatch == 3
\* values of max_concurrent
Limits == {1, 2}
\* the stubs a list is made of; one of them has no title
Stubs == {MonitorArticle("u1", ""), MonitorArticle("u2", "a_b")}
\* what a stub's URL serves while the batch runs: the article, or nothing
BatchPages(u) ==
    {[net |-> "ok_html", container |-> TRUE, headline |-> "a_b", byline |-> FALSE,
      main_image |-> FALSE, blocks |-> 1, raises |-> FALSE, of |-> u],
     [net |-> "request_error", container |-> FALSE, headline |-> NoHeadline,
      byline |-> FALSE, main_image |-> FALSE, blocks |-> 0, raises |-> FALSE,
      of |-> u]}
\* os.makedirs(save_dir, exist_ok=True) stands outside the try: what it raises
\* ends the task
Exceptions == {"PermissionError", "FileNotFoundError"}
MakedirsOutcomes == {"ok"} \cup Exceptions

InitBatch ==
    /\ Constructed /\ CycleIdle /\ ExtractIdle /\ StoreIdle /\ LifeIdle /\ StopIdle /\ RefreshIdle /\ ImageIdle /\ QualityIdle /\ SaveIdle /\ TitleIdle
    /\ article_list \in SeqsUpTo(Stubs, MaxBatch)
    /\ max_concurrent \in Limits
    /\ save_html \in BOOLEAN
    /\ phase = "called"
    /\ semaphore = 0
    /\ position = <<>>
    /\ completed = <<>>
    /\ html_saved = {}
    /\ processed_results = <<>>

\* entry of extract_all: an empty list is answered at once; otherwise the
\* semaphore and one extract_with_semaphore coroutine per article are created
\* and handed to asyncio.gather
extract_all ==
    /\ phase = "called"
    /\ IF article_list = <<>>
       THEN /\ phase' = "returned"
            /\ UNCHANGED <<semaphore, position>>
       ELSE /\ phase' = "gather"
            /\ semaphore' = max_concurrent
            /\ position' = [i \in 1..Len(article_list) |-> "created"]
    /\ UNCHANGED <<article_list, max_concurrent, save_html, completed, html_saved,
                   processed_results>>
    /\ UNCHANGED beyondBatch

\* the semaphore admits everyone
LockedNever(value) == FALSE

\* Semaphore.acquire: a task goes on only while the value is not zero
Locked(value) == value = 0

\* async with semaphore: task i enters and awaits extract_single_article
Acquire(i) ==
    /\ phase = "gather"
    /\ position[i] = "created"
    /\ ~Locked(semaphore)
    /\ semaphore' = semaphore - 1
    /\ position' = [position EXCEPT ![i] = "inside"]
    /\ UNCHANGED <<article_list, max_concurrent, save_html, phase, completed,
                   html_saved, processed_results>>
    /\ UNCHANGED beyondBatch

\* what task i ended with: a returned result, or an exception and its text
Returned(i, value) == [idx |-> i, raised |-> FALSE, text |-> "", value |-> value]
Raised(i, text) == [idx |-> i, raised |-> TRUE, text |-> text, value |-> NoResult]

\* sanitize_filename(result['title'] or 'untitled_article')
HtmlName(res) ==
    sanitize_filename(IF res.title # "" THEN res.title ELSE "untitled_article")

\* extract_single_article returns in task i; a successful result is written
\* under data/html (a failed write is logged); the semaphore is released on
\* the way out of the async with block, also when makedirs raised
ExtractReturned(i, p, mk, write_ok) ==
    /\ phase = "gather"
    /\ position[i] = "inside"
    /\ LET res == extract_single_article(article_list[i], p)
       IN  IF save_html /\ res.success
           THEN IF mk # "ok"
                THEN /\ completed' = Append(completed, Raised(i, mk))
                     /\ UNCHANGED html_saved
                ELSE /\ completed' = Append(completed, Returned(i, res))
                     /\ html_saved' = IF write_ok THEN html_saved \cup {HtmlName(res)}
                                      ELSE html_saved
           ELSE /\ completed' = Append(completed, Returned(i, res))
                /\ UNCHANGED html_saved
    /\ semaphore' = semaphore + 1
    /\ position' = [position EXCEPT ![i] = "done"]
    /\ UNCHANGED <<article_list, max_concurrent, save_html, phase, processed_results>>
    /\ UNCHANGED beyondBatch

\* results in the order the tasks ended
GatherAsCompleted(done, n) == [k \in 1..n |-> done[k]]

\* asyncio.gather(*tasks, return_exceptions=True): the outcomes in the order
\* of the tasks, whichever ended first
Gather(done, n) ==
    [i \in 1..n |-> done[CHOOSE k \in 1..Len(done) : done[k].idx = i]]

\* the failure result without the exception's text
SynthesizedBlank(article, text) ==
    [url |-> article.url, title |-> article.title,
     content |-> EmptyContent, success |-> FALSE]

\* the result built for a task that ended with an exception
Synthesized(article, text) ==
    [url |-> article.url, title |-> article.title,
     content |-> create_html_document(Message(text), DefaultTitle),
     success |-> FALSE]

\* the loop over results: an exception becomes a failure result for
\* article_list.articles[i], anything else is appended as it is
ProcessResults(results, articles) ==
    [i \in 1..Len(results) |->
        IF results[i].raised THEN Synthesized(articles[i], results[i].text)
        ELSE results[i].value]

\* gather returns when every task has ended; the results are processed and
\* returned
GatherDone ==
    /\ phase = "gather"
    /\ \A i \in 1..Len(article_list) : position[i] = "done"
    /\ processed_results' =
           ProcessResults(Gather(completed, Len(article_list)), article_list)
    /\ phase' = "returned"
    /\ UNCHANGED <<article_list, max_concurrent, save_html, semaphore, position,
                   completed, html_saved>>
    /\ UNCHANGED beyondBatch

NextBatch ==
    \/ extract_all
    \/ \E i \in 1..Len(article_list) : Acquire(i)
    \/ \E i \in 1..Len(article_list) :
         \E p \in BatchPages(article_list[i].url), mk \in MakedirsOutcomes,
            write_ok \in BOOLEAN :
             ExtractReturned(i, p, mk, write_ok)
    \/ GatherDone

SpecBatch == InitBatch /\ [][NextBatch]_vars

(* ------------------------ extract_single_article alone ------------------ *)
InitExtract ==
    /\ Constructed /\ CycleIdle /\ BatchIdle /\ StoreIdle /\ LifeIdle /\ StopIdle /\ RefreshIdle /\ ImageIdle /\ QualityIdle /\ SaveIdle /\ TitleIdle
    /\ page \in UNION {PagesOf(u) : u \in URLs}
    /\ extract_result = NoResult

\* extract_single_article is called for the URL and returns
ExtractCall ==
    /\ extract_result = NoResult
    /\ extract_result' = extract_single_article(MonitorArticle(page.of, ""), page)
    /\ UNCHANGED page
    /\ UNCHANGED beyondExtract

NextExtract == ExtractCall

SpecExtract == InitExtract /\ [][NextExtract]_vars

(* ---------------------------- save_article alone ------------------------ *)
\* calls of save_article made one after the other
MaxSaves == 2

\* what the callers hand over: a title or none, a URL or none, and as content
\* nothing, text without a title tag, or a rendered document
StoreContents ==
    {EmptyContent, PlainContent("u1"),
     create_html_document(ArticleBody("u1", 2), "a_b"),
     create_html_document(ArticleBody("u2", 2), "a_b"),
     create_html_document(ArticleBody("u2", 2), "a/b")}

ArticleData ==
    [title : {""} \cup Titles, url : {"", "u1"}, content : StoreContents]

InitStore ==
    /\ Constructed /\ CycleIdle /\ BatchIdle /\ ExtractIdle /\ LifeIdle /\ StopIdle /\ RefreshIdle /\ ImageIdle /\ QualityIdle /\ SaveIdle /\ TitleIdle
    /\ files = NoFiles
    /\ saves = <<>>
    /\ extracted = [u \in URLs |-> EmptyContent]

\* one call of save_article, from its entry to its return
SaveCall(article_data, now, write) ==
    /\ Len(saves) < MaxSaves
    /\ LET s == save_article(files, article_data, now, write)
       IN  /\ files' = s.files
           /\ saves' = Append(saves,
                  [fname |-> s.fname, content |-> article_data.content,
                   existed |-> Exists(files, s.fname), write |-> write,
                   wrote |-> s.wrote, ret |-> s.ret])
    /\ UNCHANGED extracted
    /\ UNCHANGED beyondStore

NextStore ==
    \E article_data \in ArticleData, now \in Clocks, write \in WriteOutcomes :
        SaveCall(article_data, now, write)

SpecStore == InitStore /\ [][NextStore]_vars

(* --------------------- process_next_article end to end ------------------ *)
\* The scheduler's process runs, one after the other, with the extractor and
\* the storage behind them: what extract_single_article_by_url returns is
\* computed from the page the URL serves, what save_article returns from the
\* files in base_dir.
PipePages(u) ==
    {p \in PagesOf(u) : /\ p.net \in {"ok_html", "request_error"}
                        /\ p.blocks = 1
                        /\ ~p.byline /\ ~p.main_image /\ ~p.raises}

InitPipe ==
    /\ running = FALSE
    /\ jobs = EmptyBag
    /\ article_queue \in {s \in SeqsUpTo(URLs, 2) : Len(s) >= 1 /\ Injective(s)}
    /\ processed_articles = {}
    /\ current_index = 0
    /\ fetching_active = FALSE
    /\ tasks = EmptyBag
    /\ outcome = "none"
    /\ saved_ok = {}
    /\ CycleIdle /\ BatchIdle /\ ExtractIdle /\ LifeIdle /\ StopIdle /\ RefreshIdle /\ ImageIdle /\ QualityIdle /\ SaveIdle /\ TitleIdle
    /\ files = NoFiles
    /\ saves = <<>>
    /\ extracted = [u \in URLs |-> EmptyContent]

beyondPipe == <<cycleVars, batchVars, lifeVars,
    stopVars, refreshVars, imageVars,
    qualityVars, saveVars, titleVars>>

\* the next call is made when the one before has ended
PipeCall ==
    /\ tasks = EmptyBag
    /\ trigger_process_next
    /\ UNCHANGED <<page, extract_result, files, saves, extracted>>
    /\ UNCHANGED beyondPipe

PipeEnter ==
    \E r \in Live, room \in RecursionHeadrooms :
        /\ ProcessEnter(r, room)
        /\ UNCHANGED <<page, extract_result, files, saves, extracted>>
        /\ UNCHANGED beyondPipe

\* extract_single_article_by_url(url): the stub handed to the extractor has
\* the URL and an empty title
PipeExtractDone ==
    \E r \in Live :
        \E p \in PipePages(r.url) :
            LET res == extract_single_article(MonitorArticle(r.url, ""), p)
            IN  /\ ExtractDone(r, IF res.success THEN "success" ELSE "fail")
                /\ page' = p
                /\ extract_result' = res
                /\ UNCHANGED <<files, saves, extracted>>
                /\ UNCHANGED beyondPipe

\* save_article(result): the files change as save_article leaves them, and a
\* URL that is recorded as processed is remembered with the document that was
\* handed over for it
PipeSaveDone ==
    \E r \in Live :
        \E write \in WriteOutcomes :
            LET s == save_article(files, extract_result, "article_1", write)
            IN  /\ SaveDone(r, IF s.ret THEN "true" ELSE "false")
                /\ files' = s.files
                /\ extracted' = IF s.ret
                                THEN [extracted EXCEPT ![r.url] = extract_result.content]
                                ELSE extracted
                /\ UNCHANGED <<page, extract_result, saves>>
                /\ UNCHANGED beyondPipe

NextPipe == PipeCall \/ PipeEnter \/ PipeExtractDone \/ PipeSaveDone

SpecPipe == InitPipe /\ [][NextPipe]_vars

(* ------------------------------ lifecycle ------------------------------- *)
\* start and shutdown are called again and again while the jobs fire.  What
\* the coroutines do once they run touches neither running nor jobs (see
\* Spec), so they are left pending here.
\* calls of start and shutdown
MaxLifeCalls == 4

beyondLife == <<cycleVars, batchVars, extractVars, storeVars,
    stopVars, refreshVars, imageVars,
    qualityVars, saveVars, titleVars>>

InitLife ==
    /\ Constructed
    /\ CycleIdle /\ BatchIdle /\ ExtractIdle /\ StoreIdle /\ LifeIdle /\ StopIdle /\ RefreshIdle /\ ImageIdle /\ QualityIdle /\ SaveIdle /\ TitleIdle

\* the call, its number, and the scheduler as the call found it
Called(op) == [op |-> op, n |-> last_call.n + 1, running |-> running, jobs |-> jobs]

LifeStart ==
    /\ last_call.n < MaxLifeCalls
    /\ start
    /\ last_call' = Called("start")
    /\ UNCHANGED beyondLife

LifeShutdown ==
    /\ last_call.n < MaxLifeCalls
    /\ shutdown
    /\ last_call' = Called("shutdown")
    /\ UNCHANGED beyondLife

\* a job fires
Fired == [last_call EXCEPT !.op = "fired"]

LifeCronFetch == CronFetch /\ last_call' = Fired /\ UNCHANGED beyondLife

LifeInitialFetch == InitialFetch /\ last_call' = Fired /\ UNCHANGED beyondLife

LifeIntervalProcess == IntervalProcess /\ last_call' = Fired /\ UNCHANGED beyondLife

NextLife ==
    \/ LifeStart
    \/ LifeShutdown
    \/ LifeCronFetch
    \/ LifeInitialFetch
    \/ LifeIntervalProcess

SpecLife == InitLife /\ [][NextLife]_vars

(* ------------------------------ one refresh ---------------------------- *)
\* fetch_article_list is called again and again, each call when the one
\* before has ended, on a service that has processed some URLs already (its
\* queue was cleared by shutdown()); scheduler.yaml sets max_fetch_count.
\* the values scheduler.yaml gives max_fetch_count
ConfiguredCounts == {1, max_articles}

beyondRefresh == <<cycleVars, batchVars, extractVars, storeVars, lifeVars, stopVars,
                   imageVars,
    qualityVars, saveVars, titleVars>>

InitRefresh ==
    /\ running = FALSE
    /\ jobs = EmptyBag
    /\ article_queue = <<>>
    /\ processed_articles \in SUBSET URLs
    /\ current_index = 0
    /\ fetching_active = FALSE
    /\ tasks = EmptyBag
    /\ outcome = "none"
    /\ saved_ok = processed_articles
    /\ article_fetch \in {[hour |-> 2, minute |-> 0, max_fetch_count |-> n] :
                            n \in ConfiguredCounts}
    /\ section_log = <<>>
    /\ CycleIdle /\ BatchIdle /\ ExtractIdle /\ StoreIdle /\ LifeIdle /\ StopIdle
    /\ ImageIdle /\ QualityIdle /\ SaveIdle /\ TitleIdle

\* what a section ended with: the sections left after it, the stubs parsed,
\* the stubs appended, and the processed set at that moment
Section(result, left, parsed, appended) ==
    [result |-> result, left |-> left, parsed |-> parsed, appended |-> appended,
     done |-> processed_articles]

\* the elements a step added at the end of the queue
Appended == SubSeq(article_queue', Len(article_queue) + 1, Len(article_queue'))

RefreshCall ==
    /\ tasks = EmptyBag
    /\ trigger_article_fetch
    /\ section_log' = <<>>
    /\ UNCHANGED article_fetch
    /\ UNCHANGED beyondRefresh

RefreshEnter ==
    \E r \in Live, config \in Configs :
        \E sections \in IF config = "raise" THEN {0} ELSE 0..MaxSections :
            /\ FetchEnter(r, config, sections)
            /\ UNCHANGED <<article_fetch, section_log>>
            /\ UNCHANGED beyondRefresh

RefreshFetchContentDone ==
    \E r \in Live, res \in FetchResults :
        /\ FetchContentDone(r, res)
        /\ section_log' =
              CASE res = "fail" ->
                     Append(section_log, Section("fetch_failed", r.left - 1, <<>>, <<>>))
                [] res = "raise" ->
                     Append(section_log, Section("raised", r.left - 1, <<>>, <<>>))
                [] OTHER -> section_log
        /\ UNCHANGED article_fetch
        /\ UNCHANGED beyondRefresh

RefreshParseDone ==
    \E r \in Live, res \in ParseResults :
        \E articles \in IF res = "success" THEN Listings ELSE {<<>>} :
            /\ ParseDone(r, res, articles)
            /\ section_log' =
                  CASE res = "fail" ->
                         Append(section_log, Section("parse_failed", r.left - 1, <<>>, <<>>))
                    [] res = "raise" ->
                         Append(section_log, Section("raised", r.left - 1, <<>>, <<>>))
                    [] res = "success" /\ articles = <<>> ->
                         Append(section_log, Section("empty", r.left - 1, <<>>, <<>>))
                    [] OTHER ->
                         Append(section_log,
                                Section("parsed", r.left - 1, articles, Appended))
            /\ UNCHANGED article_fetch
            /\ UNCHANGED beyondRefresh

NextRefresh ==
    \/ RefreshCall
    \/ RefreshEnter
    \/ RefreshFetchContentDone
    \/ RefreshParseDone

SpecRefresh == InitRefresh /\ [][NextRefresh]_vars

(* ------------------------- downloads among each other ------------------ *)
\* download_image is called for the image URLs of the articles being
\* extracted; a call is made at any moment, also while others are suspended.
\* calls of download_image in a run
MaxDownloads == 2

beyondImage == <<schedulerVars, cycleVars, batchVars, extractVars, storeVars,
                 lifeVars, stopVars, refreshVars,
    qualityVars, saveVars, titleVars>>

InitImage ==
    /\ Constructed
    /\ CycleIdle /\ BatchIdle /\ ExtractIdle /\ StoreIdle /\ LifeIdle /\ StopIdle
    /\ RefreshIdle /\ ImageIdle /\ QualityIdle /\ SaveIdle /\ TitleIdle

\* the calls suspended at an await
Downloading == {i \in 1..Len(downloads) : downloads[i].pc \in {"get", "read"}}

\* a directory that holds a file exists, and makedirs(exist_ok=True) of it
\* raises nothing
DirExists(fs, save_dir) == \E f \in DOMAIN fs : f.dir = save_dir

ImageCall ==
    \E url \in ImageURLs, save_dir \in SaveDirs, mk \in MakedirsOutcomes :
        /\ Len(downloads) < MaxDownloads
        /\ DirExists(disk, save_dir) => mk = "ok"
        /\ downloads' = Append(downloads, Entered(disk, url, save_dir, mk))
        /\ UNCHANGED disk
        /\ UNCHANGED beyondImage

ImageResponse ==
    \E i \in 1..Len(downloads), resp \in Responses :
        /\ downloads[i].pc = "get"
        /\ downloads' = [downloads EXCEPT ![i] = Responded(downloads[i], resp)]
        /\ UNCHANGED disk
        /\ UNCHANGED beyondImage

ImageReadDone ==
    \E i \in 1..Len(downloads), body \in Bodies, w1, w2 \in WriteOutcomes :
        /\ downloads[i].pc = "read"
        /\ LET after == ReadDone(disk, downloads[i], body, w1, w2)
           IN  /\ downloads' = [downloads EXCEPT ![i] = after.call]
               /\ disk' = after.files
        /\ UNCHANGED beyondImage

NextImage == ImageCall \/ ImageResponse \/ ImageReadDone

SpecImage == InitImage /\ [][NextImage]_vars

(* ----------------------------- JPEG quality loop ----------------------- *)
\* One image is encoded, re-encoded at lower quality while it is a JPEG above
\* max_file_size, and written.  The size an encoding comes out with is any
\* of Sizes, chosen anew at every encoding: every size function is covered,
\* also those that do not shrink with the quality.
\* while ... and current_quality > 40; if current_quality <= 40: break
quality_floor == 40
\* current_quality -= 10
quality_step == 10

\* values of the parameter quality (85 by default)
Qualities == {30, 40, 41, 45, 50, 85, 100}
\* sizes of an encoding and values of max_file_size, in units of bytes
Sizes == {1, 2, 3}
FileSizeLimits == {1, 2}
Formats == {"JPEG", "PNG", "WEBP"}

\* the quality is left as it is
LoweredNot(q) == q

\* current_quality -= 10
Lowered(q) == q - quality_step

Encoding(q, size) == [quality |-> q, size |-> size]

\* len(processed_data) of the encoding made last
LastSize(e) == e.encodings[Len(e.encodings)].size

beyondQuality == <<schedulerVars, cycleVars, batchVars, extractVars, storeVars,
                   lifeVars, stopVars, refreshVars, imageVars, saveVars, titleVars>>

InitQuality ==
    /\ Constructed
    /\ CycleIdle /\ BatchIdle /\ ExtractIdle /\ StoreIdle /\ LifeIdle /\ StopIdle
    /\ RefreshIdle /\ ImageIdle /\ SaveIdle /\ TitleIdle
    /\ encoder \in {[NotEncoding EXCEPT !.pc = "start", !.format = f, !.quality = q,
                                         !.max_file_size = m, !.current_quality = q] :
                        f \in Formats, q \in Qualities, m \in FileSizeLimits}

\* img.save(output, format=save_format, quality=quality, ...) and the test
\* that guards the loop
FirstEncode ==
    \E size \in Sizes :
        /\ encoder.pc = "start"
        /\ encoder' = [encoder EXCEPT
                          !.encodings = <<Encoding(encoder.quality, size)>>,
                          !.pc = IF size > encoder.max_file_size /\ encoder.format = "JPEG"
                                 THEN "loop" ELSE "write"]
        /\ UNCHANGED beyondQuality

\* one pass of the while loop: its test, the decrement, the re-encoding and
\* the break
Reencode ==
    \E size \in Sizes :
        /\ encoder.pc = "loop"
        /\ IF LastSize(encoder) > encoder.max_file_size
              /\ encoder.current_quality > quality_floor
           THEN LET q == Lowered(encoder.current_quality)
                IN  encoder' = [encoder EXCEPT
                                  !.current_quality = q,
                                  !.encodings = Append(@, Encoding(q, size)),
                                  !.pc = IF q <= quality_floor THEN "write" ELSE "loop"]
           ELSE encoder' = [encoder EXCEPT !.pc = "write"]
        /\ UNCHANGED beyondQuality

\* with open(filepath, 'wb') as f: f.write(processed_data)
WriteEncoded ==
    /\ encoder.pc = "write"
    /\ encoder' = [encoder EXCEPT !.pc = "written", !.written = Len(encoder.encodings)]
    /\ UNCHANGED beyondQuality

NextQuality == FirstEncode \/ Reencode \/ WriteEncoded

SpecQuality == InitQuality /\ [][NextQuality]_vars

(* ------------------------ shutdown among the work ----------------------- *)
\* The service is started and shut down while refreshes and extractions are
\* triggered one after another, by the jobs and by the routes; shutdown() is
\* called at any moment, also between two awaits of a coroutine.
\* calls of start() and shutdown() in a run
MaxStopCalls == 3

beyondStop == <<cycleVars, batchVars, extractVars, storeVars, lifeVars, refreshVars,
                imageVars,
    qualityVars, saveVars, titleVars>>

InitStop ==
    /\ Constructed
    /\ CycleIdle /\ BatchIdle /\ ExtractIdle /\ StoreIdle /\ LifeIdle /\ StopIdle
    /\ RefreshIdle /\ ImageIdle /\ QualityIdle /\ SaveIdle /\ TitleIdle

\* the call and the service as the call found it
Found(op) ==
    [op |-> op, n |-> found.n + 1, running |-> running, jobs |-> jobs,
     queue |-> article_queue, cursor |-> current_index,
     processed |-> processed_articles, tasks |-> tasks]

\* Something else than a call of start() or shutdown() happened.  While the
\* coroutines that shutdown() found suspended run on, what the call found is
\* kept ("draining", and "drained" when the last of them has ended).
Since ==
    IF found.op \in {"shutdown", "draining"} /\ tasks # EmptyBag
    THEN [found EXCEPT !.op = IF tasks' = EmptyBag THEN "drained" ELSE "draining"]
    ELSE [NotCalled EXCEPT !.op = "since", !.n = found.n]

StopStart ==
    /\ found.n < MaxStopCalls
    /\ start
    /\ found' = Found("start")
    /\ UNCHANGED beyondStop

StopShutdown ==
    /\ found.n < MaxStopCalls
    /\ shutdown
    /\ found' = Found("shutdown")
    /\ UNCHANGED beyondStop

\* the next coroutine is created when the one before has ended
StopCronFetch ==
    tasks = EmptyBag /\ CronFetch /\ found' = Since /\ UNCHANGED beyondStop

StopInitialFetch ==
    tasks = EmptyBag /\ InitialFetch /\ found' = Since /\ UNCHANGED beyondStop

StopIntervalProcess ==
    tasks = EmptyBag /\ IntervalProcess /\ found' = Since /\ UNCHANGED beyondStop

StopFetchNow ==
    tasks = EmptyBag /\ trigger_article_fetch /\ found' = Since /\ UNCHANGED beyondStop

StopProcessNext ==
    tasks = EmptyBag /\ trigger_process_next /\ found' = Since /\ UNCHANGED beyondStop

StopFetchEnter ==
    \E r \in Live, config \in Configs :
        \E sections \in IF config = "raise" THEN {0} ELSE 0..MaxSections :
            FetchEnter(r, config, sections) /\ found' = Since /\ UNCHANGED beyondStop

StopFetchContentDone ==
    \E r \in Live, res \in FetchResults :
        FetchContentDone(r, res) /\ found' = Since /\ UNCHANGED beyondStop

StopParseDone ==
    \E r \in Live, res \in ParseResults :
        \E articles \in IF res = "success" THEN Listings ELSE {<<>>} :
            ParseDone(r, res, articles) /\ found' = Since /\ UNCHANGED beyondStop

StopProcessEnter ==
    \E r \in Live, room \in RecursionHeadrooms :
        ProcessEnter(r, room) /\ found' = Since /\ UNCHANGED beyondStop

StopExtractDone ==
    \E r \in Live, res \in ExtractResults :
        ExtractDone(r, res) /\ found' = Since /\ UNCHANGED beyondStop

StopSaveDone ==
    \E r \in Live, save_result \in SaveResults :
        SaveDone(r, save_result) /\ found' = Since /\ UNCHANGED beyondStop

NextStop ==
    \/ StopStart
    \/ StopShutdown
    \/ StopCronFetch
    \/ StopInitialFetch
    \/ StopIntervalProcess
    \/ StopFetchNow
    \/ StopProcessNext
    \/ StopFetchEnter
    \/ StopFetchContentDone
    \/ StopParseDone
    \/ StopProcessEnter
    \/ StopExtractDone
    \/ StopSaveDone

SpecStop == InitStop /\ [][NextStop]_vars

TypeOK ==
    /\ running \in BOOLEAN
    /\ IsABag(jobs) /\ BagToSet(jobs) \subseteq JobIds
    /\ article_queue \in SeqsUpTo(URLs \cup CycleURLs, MaxQueue)
    /\ processed_articles \subseteq URLs \cup CycleURLs
    /\ current_index \in 0..MaxQueue
    /\ fetching_active \in BOOLEAN
    /\ IsABag(tasks) /\ BagCardinality(tasks) <= MaxTasks
    /\ outcome \in Outcomes

(* ------------------------ save_article among each other ----------------- *)
\* Calls of save_article that overlap: a call runs from its entry to the
\* await of write_file, the executor writes, and the call resumes. Other
\* calls run between the two.
beyondSave == <<schedulerVars, cycleVars, batchVars, extractVars, lifeVars, stopVars,
                refreshVars, imageVars, qualityVars, titleVars>>

\* what the overlapping callers hand over: documents of one URL under titles
\* of which two give the same file name
SaveData == {d \in ArticleData : d.url = "u1"}

\* save_article from its entry to the return at the existence test or to the
\* await of write_file
Checked(fs, article_data, now) ==
    LET fname == Filename(article_data, now)
    IN  [fname |-> fname, content |-> article_data.content,
         pc |-> IF Exists(fs, fname) THEN "returned" ELSE "write_file",
         existed |-> Exists(fs, fname), wrote |-> FALSE, ret |-> Exists(fs, fname)]

\* _write_to_file in the executor: open(path, 'w') and f.write(content)
Executed(fs, s, write) ==
    CASE write = "ok" ->
            [f \in DOMAIN fs \cup {s.fname} |-> IF f = s.fname THEN s.content ELSE fs[f]]
      [] write = "open_fails" -> fs
      [] OTHER ->
            [f \in DOMAIN fs \cup {s.fname} |-> IF f = s.fname THEN PartialContent ELSE fs[f]]

\* the call after the await: return True, or the except clause
Resumed(s, write) ==
    [s EXCEPT !.pc = "returned", !.wrote = (write = "ok"),
              !.ret = IF write = "ok" THEN TRUE ELSE WriteFailed]

InitSave ==
    /\ Constructed
    /\ CycleIdle /\ BatchIdle /\ ExtractIdle /\ LifeIdle /\ StopIdle /\ RefreshIdle
    /\ ImageIdle /\ QualityIdle /\ TitleIdle
    /\ files = NoFiles
    /\ saves = <<>>
    /\ extracted = [u \in URLs |-> EmptyContent]
    /\ saving = <<>>

\* a call of save_article is made and runs to its first await or its return
SaveEnter(article_data, now) ==
    /\ Len(saving) < MaxSaves
    /\ saving' = Append(saving, Checked(files, article_data, now))
    /\ UNCHANGED storeVars
    /\ UNCHANGED beyondSave

\* the executor has run _write_to_file for call i and the call resumes
SaveWritten(i, write) ==
    /\ saving[i].pc = "write_file"
    /\ files' = Executed(files, saving[i], write)
    /\ saving' = [saving EXCEPT ![i] = Resumed(saving[i], write)]
    /\ UNCHANGED <<saves, extracted>>
    /\ UNCHANGED beyondSave

NextSave ==
    \/ \E article_data \in SaveData, now \in Clocks : SaveEnter(article_data, now)
    \/ \E i \in DOMAIN saving, write \in WriteOutcomes : SaveWritten(i, write)

SpecSave == InitSave /\ [][NextSave]_vars

(* ------------------- encode_title_to_filename and back ------------------ *)
\* Strings are sequences of code points and byte strings sequences of bytes;
\* a title is written as the bytes of its UTF-8 form, which determine it. All
\* other strings here (article ids, file names) are ASCII, one byte a character.
MaxTitle == 4

\* the bytes titles are made of: "a", " ", and the bytes of U+04CF and U+0430
TitleBytes == {97, 32, 211, 143, 208, 176}

\* ".html" and "untitled_"
dot_html == <<46, 104, 116, 109, 108>>
untitled == <<117, 110, 116, 105, 116, 108, 101, 100, 95>>

\* bytes.decode('utf-8') accepts the byte string from position i on
RECURSIVE Utf8From(_, _)
Utf8From(b, i) ==
    LET Cont(k) == k <= Len(b) /\ b[k] \in 128..191
    IN  IF i > Len(b) THEN TRUE
        ELSE CASE b[i] < 128 -> Utf8From(b, i + 1)
               [] b[i] \in 194..223 -> Cont(i + 1) /\ Utf8From(b, i + 2)
               [] b[i] \in 224..239 ->
                    /\ Cont(i + 1) /\ Cont(i + 2)
                    /\ (b[i] = 224 => b[i + 1] >= 160)
                    /\ (b[i] = 237 => b[i + 1] <= 159)
                    /\ Utf8From(b, i + 3)
               [] b[i] \in 240..244 ->
                    /\ Cont(i + 1) /\ Cont(i + 2) /\ Cont(i + 3)
                    /\ (b[i] = 240 => b[i + 1] >= 144)
                    /\ (b[i] = 244 => b[i + 1] <= 143)
                    /\ Utf8From(b, i + 4)
               [] OTHER -> FALSE

Utf8(b) == Utf8From(b, 1)

\* the titles handed to encode_title_to_filename
TitleTexts == {t \in SeqsUpTo(TitleBytes, MaxTitle) : Len(t) >= 1 /\ Utf8(t)}

\* article_id: None, "12", and "ab1" as the hexadecimal ids of
\* generate_article_id are
ArticleIds == {<<>>, <<49, 50>>, <<97, 98, 49>>}

\* int(datetime.now().timestamp()), written in decimal
Timestamps == {<<49, 55>>}

\* not title.strip()
IsBlankTitle(title) == \A i \in DOMAIN title : title[i] \in {9, 10, 11, 12, 13, 32}

\* str.isdigit()
isdigit(str) == Len(str) > 0 /\ \A i \in DOMAIN str : str[i] \in 48..57

\* the character of a 6-bit value in the URL-safe alphabet: A-Z a-z 0-9 - _
b64char(v) ==
    CASE v < 26 -> 65 + v
      [] v < 52 -> 97 + (v - 26)
      [] v < 62 -> 48 + (v - 52)
      [] v = 62 -> 45
      [] OTHER -> 95

\* the 6-bit value of a character, -1 for a character outside the alphabet;
\* after the translation of "-" and "_" the decoder also takes "+" and "/"
b64value(c) ==
    CASE c \in 65..90 -> c - 65
      [] c \in 97..122 -> c - 97 + 26
      [] c \in 48..57 -> c - 48 + 52
      [] c \in {45, 43} -> 62
      [] c \in {95, 47} -> 63
      [] OTHER -> -1

\* base64.urlsafe_b64encode(b).decode('ascii')
RECURSIVE urlsafe_b64encode(_)
urlsafe_b64encode(b) ==
    CASE Len(b) = 0 -> <<>>
      [] Len(b) = 1 ->
            <<b64char(b[1] \div 4), b64char((b[1] % 4) * 16), 61, 61>>
      [] Len(b) = 2 ->
            <<b64char(b[1] \div 4), b64char((b[1] % 4) * 16 + b[2] \div 16),
              b64char((b[2] % 16) * 4), 61>>
      [] OTHER ->
            <<b64char(b[1] \div 4), b64char((b[1] % 4) * 16 + b[2] \div 16),
              b64char((b[2] % 16) * 4 + b[3] \div 64), b64char(b[3] % 64)>>
            \o urlsafe_b64encode(SubSeq(b, 4, Len(b)))

\* the bytes of a sequence of 6-bit values, a last group of two or three
\* values giving one or two bytes
RECURSIVE Unsextet(_)
Unsextet(v) ==
    CASE Len(v) <= 1 -> <<>>
      [] Len(v) = 2 -> <<v[1] * 4 + v[2] \div 16>>
      [] Len(v) = 3 -> <<v[1] * 4 + v[2] \div 16, (v[2] % 16) * 16 + v[3] \div 4>>
      [] OTHER ->
            <<v[1] * 4 + v[2] \div 16, (v[2] % 16) * 16 + v[3] \div 4,
              (v[3] % 4) * 64 + v[4]>>
            \o Unsextet(SubSeq(v, 5, Len(v)))

\* the 6-bit values of the characters of the alphabet in a string; the
\* decoder drops every other character
SextetsOf(str) ==
    LET data == SelectSeq(str, LAMBDA c : b64value(c) >= 0)
    IN  [i \in DOMAIN data |-> b64value(data[i])]

\* the "=" at the end of a string
RECURSIVE Pads(_)
Pads(str) ==
    IF Len(str) > 0 /\ str[Len(str)] = 61
    THEN 1 + Pads(SubSeq(str, 1, Len(str) - 1))
    ELSE 0

\* base64.urlsafe_b64decode raises binascii.Error: the data characters stop
\* inside a group of four and the padding does not complete the group
b64_raises(str) ==
    LET q == Len(SextetsOf(str)) % 4
    IN  \/ q = 1
        \/ q = 2 /\ Pads(str) < 2
        \/ q = 3 /\ Pads(str) < 1

\* base64.urlsafe_b64decode(str), where it does not raise
urlsafe_b64decode(str) == Unsextet(SextetsOf(str))

\* str.replace(old, new)
RECURSIVE replace(_, _, _)
replace(str, old, new) ==
    IF Len(str) = 0 THEN <<>>
    ELSE IF Len(str) >= Len(old) /\ SubSeq(str, 1, Len(old)) = old
    THEN new \o replace(SubSeq(str, Len(old) + 1, Len(str)), old, new)
    ELSE <<str[1]>> \o replace(SubSeq(str, 2, Len(str)), old, new)

\* str.split('_', 1)
split(str) ==
    IF \E i \in DOMAIN str : str[i] = 95
    THEN LET i == CHOOSE k \in DOMAIN str :
                      str[k] = 95 /\ \A j \in 1..(k - 1) : str[j] # 95
         IN  <<SubSeq(str, 1, i - 1), SubSeq(str, i + 1, Len(str))>>
    ELSE <<str>>

encode_title_to_filename(title, article_id, now) ==
    LET named == IF IsBlankTitle(title) THEN untitled \o now ELSE title
        encoded == urlsafe_b64encode(named)
    IN  IF Len(article_id) > 0
        THEN article_id \o <<95>> \o encoded \o dot_html
        ELSE encoded \o dot_html

decode_title_from_filename(filename) ==
    LET name == replace(filename, dot_html, <<>>)
        parts == split(name)
        encoded_part == IF Len(parts) = 2 /\ isdigit(parts[1]) THEN parts[2] ELSE name
    IN  IF /\ \A i \in DOMAIN encoded_part : encoded_part[i] < 128
           /\ ~b64_raises(encoded_part)
           /\ Utf8(urlsafe_b64decode(encoded_part))
        THEN urlsafe_b64decode(encoded_part)
        ELSE replace(replace(filename, dot_html, <<>>), <<95>>, <<32>>)

beyondTitle == <<schedulerVars, cycleVars, batchVars, extractVars, storeVars, lifeVars,
                 stopVars, refreshVars, imageVars, qualityVars, saveVars>>

InitTitle ==
    /\ Constructed
    /\ CycleIdle /\ BatchIdle /\ ExtractIdle /\ StoreIdle /\ LifeIdle /\ StopIdle
    /\ RefreshIdle /\ ImageIdle /\ QualityIdle /\ SaveIdle
    /\ codec \in {[NoCodec EXCEPT !.pc = "start", !.title = t, !.article_id = a] :
                      t \in TitleTexts, a \in ArticleIds}

\* the file name is built for the title and the id
EncodeTitle(now) ==
    /\ codec.pc = "start"
    /\ codec' = [codec EXCEPT !.pc = "encoded",
                     !.filename = encode_title_to_filename(codec.title, codec.article_id, now)]
    /\ UNCHANGED beyondTitle

\* the title is read back from the file name
DecodeTitle ==
    /\ codec.pc = "encoded"
    /\ codec' = [codec EXCEPT !.pc = "decoded",
                     !.decoded = decode_title_from_filename(codec.filename)]
    /\ UNCHANGED beyondTitle

NextTitle ==
    \/ \E now \in Timestamps : EncodeTitle(now)
    \/ DecodeTitle

SpecTitle == InitTitle /\ [][NextTitle]_vars

(* ------------------------------- claims -------------------------------- *)
\* coroutines that are executing the body of fetch_article_list
RefreshingCount ==
    BagCardinality([r \in Refreshing |-> tasks[r]])

Extracting(u) == Task("process_next_article", "extract", u, 0, "none")

\* this step invokes extract_single_article_by_url(u)
InvokesExtraction(u) == Count(Extracting(u))' > Count(Extracting(u))

\* this step is a step of a process_next_article coroutine at position r
ProcessStep(r) ==
    /\ r \in Live /\ r.op = "process_next_article"
    /\ Count(r)' < Count(r)

\* this step is the entry of a fetch_article_list coroutine
FetchEnterStep ==
    Count(Pending("fetch_article_list"))' < Count(Pending("fetch_article_list"))

\* C1: the processed set never loses a URL, and no step of any
\* process_next_article run invokes extraction for a URL that is in the
\* processed set, however often the URL is queued and whatever refreshes and
\* other process runs are interleaved.
C1_NoDuplicateProcessing ==
    [][ /\ processed_articles \subseteq processed_articles'
        /\ \A u \in URLs : InvokesExtraction(u) => u \notin processed_articles ]_vars

\* C1 witness: a process run skipped a processed URL that is queued twice and
\* invoked extraction for the unprocessed URL behind it.
C1_Witness ==
    /\ Len(article_queue) = 3
    /\ article_queue[1] \in processed_articles
    /\ article_queue[2] = article_queue[1]
    /\ article_queue[3] \notin processed_articles
    /\ current_index = 3
    /\ Count(Extracting(article_queue[3])) = 1

\* C2: at most one coroutine is inside the refresh body at any instant, and a
\* trigger that enters fetch_article_list while the flag is set ends at once:
\* it enters no body, appends nothing and starts no fetch.
C2_RefreshMutualExclusion ==
    /\ [](RefreshingCount <= 1)
    /\ [][ (FetchEnterStep /\ fetching_active) =>
              /\ article_queue' = article_queue
              /\ RefreshingCount' = RefreshingCount
              /\ BagCardinality(tasks') = BagCardinality(tasks) - 1 ]_vars

\* C2 witness: a trigger was skipped while a refresh is in flight.
C2_Witness ==
    /\ outcome = "skipped"
    /\ fetching_active
    /\ RefreshingCount = 1

\* C3: the flag is set only while a coroutine is inside the refresh body; the
\* step that ends that coroutine (last section done, failed sections, or an
\* exception) leaves the flag false; a refresh that finds no configuration
\* leaves it false; a skipped trigger leaves the flag of the running refresh set.
C3_LockAlwaysReleased ==
    /\ [](fetching_active <=> RefreshingCount = 1)
    /\ [][ /\ RefreshingCount' < RefreshingCount => ~fetching_active'
           /\ (FetchEnterStep /\ ~fetching_active /\ RefreshingCount' = RefreshingCount)
                 => ~fetching_active'
           /\ (FetchEnterStep /\ fetching_active) => fetching_active' ]_vars

\* C3 witness: a refresh that acquired the flag and appended stubs has ended,
\* and the flag is false again.
C3_Witness ==
    /\ article_queue # <<>>
    /\ outcome = "returned"
    /\ tasks = EmptyBag
    /\ ~fetching_active
    /\ current_index = 0

\* C4: every URL in the processed set was extracted with success and then
\* saved with success, and the only step that adds a URL is the step of a
\* process_next_article run that receives the value of save_article for it.
C4_ProcessedOnlyAfterSave ==
    /\ [](processed_articles \subseteq saved_ok)
    /\ [][ processed_articles' # processed_articles =>
              \E r \in Live :
                  /\ ProcessStep(r) /\ r.pc = "save_article" /\ r.result = "success"
                  /\ processed_articles' = processed_articles \cup {r.url}
                  /\ r.url \in saved_ok' ]_vars

\* C4 witness: a URL has been extracted, saved and marked processed.
C4_Witness ==
    /\ processed_articles # {}
    /\ processed_articles = saved_ok
    /\ tasks = EmptyBag

\* C5: no step of process_next_article changes the queue, and a step that is
\* not a successful save (extraction without success, save_article false,
\* either raising) leaves the processed set as it was.
C5_FailureLeavesStateUnchanged ==
    [][ \A r \in Live : ProcessStep(r) =>
            /\ article_queue' = article_queue
            /\ (saved_ok' = saved_ok => processed_articles' = processed_articles) ]_vars

\* C5 witness: a process run took a stub, failed and ended: the cursor has
\* advanced, the stub is still queued and nothing is processed.
C5_Witness ==
    /\ article_queue # <<>>
    /\ current_index = 1
    /\ processed_articles = {}
    /\ saved_ok = {}
    /\ tasks = EmptyBag
    /\ outcome = "returned"

\* C6: in the round-robin scenario the first N calls invoke extraction for
\* the N queued stubs in queue order, each once, and when the N-th call has
\* ended every stub but the failing one is processed (saved once), while the
\* failing one is still queued and unprocessed.
C6_RoundRobinCycle ==
    LET N == Len(article_queue)
    IN  /\ \A k \in 1..Min(Len(visits), N) : visits[k] = article_queue[k]
        /\ (Len(visits) > N \/ (Len(visits) = N /\ tasks = EmptyBag)) =>
              /\ processed_articles = Range(article_queue) \ failing
              /\ saved_ok = processed_articles
              /\ failing \subseteq Range(article_queue)

\* C6 witness: a full cycle over three stubs has ended, the second one failing.
C6_Witness ==
    /\ Len(article_queue) = 3
    /\ Len(visits) = 3
    /\ tasks = EmptyBag
    /\ failing = {article_queue[2]}
    /\ Cardinality(processed_articles) = 2

\* C7 as stated: with a non-empty queue, 0 <= cursor < len(queue) in every
\* reachable state.
C7_CursorInRange ==
    article_queue # <<>> =>
        (0 <= current_index /\ current_index < Len(article_queue))

\* C7 amended: the cursor is never negative, and every stub process_next_article
\* takes is read at an index within the queue: after the step the cursor is in
\* 1..len(queue) and the stub taken is the one just before it.  Between calls
\* the cursor may equal or exceed len(queue).
C7_CursorReadsInRange ==
    /\ [](current_index >= 0)
    /\ [][ \A u \in URLs : InvokesExtraction(u) =>
              /\ current_index' \in 1..Len(article_queue)
              /\ article_queue[current_index'] = u ]_vars

\* C7 witness: process_next_article took the last stub of the queue, which
\* leaves the cursor at len(queue).
C7_Witness ==
    /\ Len(article_queue) = 2
    /\ current_index = 2
    /\ Count(Extracting(article_queue[2])) = 1

\* C8 as stated: a call of process_next_article on a non-empty queue whose
\* URLs are all processed ends as a no-op: it returns, invokes no extraction
\* and raises nothing.
C8_BoundedSkip ==
    [][ \A r \in Live :
           ( /\ ProcessStep(r) /\ r.pc = "pending"
             /\ article_queue # <<>>
             /\ Range(article_queue) \subseteq processed_articles ) =>
               /\ outcome' = "returned"
               /\ tasks' = Without(tasks, r) ]_vars

\* C9 as stated: no execution of fetch_article_list or process_next_article
\* ends with an exception.
C9_NoExceptionEscapes == outcome # "raised"

\* C10: a call of process_next_article on an empty queue returns at once: it
\* invokes no extraction and leaves queue, cursor and processed set as they
\* were; if no refresh is running it leaves one refresh coroutine created and
\* not yet entered, otherwise the running refresh is still in flight.
C10_EmptyQueueStartsRefresh ==
    [][ \A r \in Live :
           (ProcessStep(r) /\ r.pc = "pending" /\ article_queue = <<>>) =>
               /\ UNCHANGED <<article_queue, current_index, processed_articles,
                              fetching_active>>
               /\ outcome' = "returned"
               /\ \A u \in URLs : Count(Extracting(u))' = Count(Extracting(u))
               /\ RefreshingCount' = RefreshingCount
               /\ IF fetching_active
                  THEN tasks' = Without(tasks, r)
                  ELSE tasks' = Moved(r, Pending("fetch_article_list")) ]_vars

\* C10 witness: the call on the empty queue has returned and the refresh it
\* created is waiting to run.
C10_Witness ==
    /\ article_queue = <<>>
    /\ outcome = "returned"
    /\ ~fetching_active
    /\ tasks = SetToBag({Pending("fetch_article_list")})
    /\ ~running
    /\ current_index = 2
\* the tasks of the batch that are inside the semaphore-guarded section
InsideSection == {i \in DOMAIN position : position[i] = "inside"}

\* what task i ended with
Ended(i) == completed[CHOOSE k \in 1..Len(completed) : completed[k].idx = i]

\* C11: when extract_all has returned, the list it returned has one result
\* for each input article, and result i carries the URL of input i, whatever
\* the order the extractions ended in and however each of them ended.
C11_OneResultPerInputInOrder ==
    phase = "returned" =>
        /\ Len(processed_results) = Len(article_list)
        /\ \A i \in 1..Len(article_list) :
               processed_results[i].url = article_list[i].url

\* C11 witness: a batch of distinct URLs has returned, and the article that
\* is first in the list ended last.
C11_Witness ==
    /\ phase = "returned"
    /\ Len(article_list) >= 2
    /\ article_list[1].url # article_list[2].url
    /\ completed[Len(completed)].idx = 1
    /\ processed_results[1].url = article_list[1].url

\* C12: at no instant are more than max_concurrent tasks of the batch
\* inside the semaphore-guarded section, and the tasks inside and the value
\* of the semaphore add up to max_concurrent.
C12_BoundedConcurrency ==
    phase = "gather" =>
        /\ Cardinality(InsideSection) <= max_concurrent
        /\ Cardinality(InsideSection) + semaphore = max_concurrent

\* C12 witness: max_concurrent tasks are inside and a further task of the
\* batch is kept waiting.
C12_Witness ==
    /\ phase = "gather"
    /\ max_concurrent >= 2
    /\ Cardinality(InsideSection) = max_concurrent
    /\ \E i \in DOMAIN position : position[i] = "created"

\* C13: a task that ended with an exception does not stop the batch: while
\* gather waits, some task can still take a step (or all have ended and
\* gather returns); in the returned list the position of a task that raised
\* holds a failure result with the article's URL and a document carrying the
\* exception's text, and every other position holds the value that
\* article's own extraction returned.
C13_PerItemIsolation ==
    /\ phase = "gather" =>
           \/ InsideSection # {}
           \/ \E i \in DOMAIN position : position[i] = "created" /\ semaphore > 0
           \/ \A i \in DOMAIN position : position[i] = "done"
    /\ phase = "returned" =>
           \A i \in 1..Len(processed_results) :
               IF Ended(i).raised
               THEN /\ processed_results[i].success = FALSE
                    /\ processed_results[i].url = article_list[i].url
                    /\ processed_results[i].content # EmptyContent
                    /\ processed_results[i].content.body.msg = Ended(i).text
               ELSE /\ processed_results[i] = Ended(i).value
                    /\ \E p \in BatchPages(article_list[i].url) :
                           processed_results[i] =
                               extract_single_article(article_list[i], p)

\* C13 witness: a batch has returned in which one task raised, one extraction
\* succeeded after it and one failed.
C13_Witness ==
    /\ phase = "returned"
    /\ Len(processed_results) = 3
    /\ \E i, j, k \in 1..3 :
           /\ Ended(i).raised
           /\ processed_results[i].success = FALSE
           /\ processed_results[i].content.body.msg = "PermissionError"
           /\ ~Ended(j).raised /\ processed_results[j].success
           /\ ~Ended(k).raised /\ ~processed_results[k].success
           /\ completed[1].idx = i

\* C14: of the calls of save_article made one after the other, a call that
\* wrote a file is the only one that writes it: every later call that derives
\* the same filename, whatever its content, returns true without writing, and
\* the file keeps the content of the call that wrote it.
C14_IdempotentStorage ==
    \A i, j \in 1..Len(saves) :
        (i < j /\ saves[i].wrote /\ saves[j].fname = saves[i].fname) =>
            /\ saves[j].ret
            /\ ~saves[j].wrote
            /\ files[saves[i].fname] = saves[i].content

\* C14 witness: two calls with an empty title and different documents that
\* carry the same title tag; the first wrote the file, the second returned
\* true, and the file holds the first document.
C14_Witness ==
    /\ Len(saves) = 2
    /\ saves[1].fname = saves[2].fname
    /\ saves[1].content # saves[2].content
    /\ HasTitleTag(saves[1].content) /\ HasTitleTag(saves[2].content)
    /\ saves[1].wrote /\ saves[1].ret
    /\ saves[2].ret /\ ~saves[2].wrote /\ saves[2].write = "ok"
    /\ files[saves[1].fname] = saves[1].content

\* C15: for each URL in the processed set a file exists whose content is the
\* document that was extracted for that URL.
C15_OneDocumentPerProcessedUrl ==
    \A u \in processed_articles :
        \E f \in DOMAIN files : files[f] = extracted[u]

\* C16: a call of save_article whose write failed returned false, every call
\* returned true or false, and a call returned true only when the file
\* existed before it or its own write completed and left its content in the
\* file.
C16_WriteFailuresAreValues ==
    \A k \in 1..Len(saves) :
        /\ saves[k].ret \in BOOLEAN
        /\ (~saves[k].existed /\ saves[k].write # "ok") => saves[k].ret = FALSE
        /\ saves[k].ret = TRUE =>
               \/ saves[k].existed
               \/ /\ saves[k].write = "ok" /\ saves[k].wrote
                  /\ files[saves[k].fname] = saves[k].content

\* C16 witness: a write that broke off returned false and left a file behind;
\* the next call for that filename returned true because the file existed.
C16_Witness ==
    /\ Len(saves) = 2
    /\ saves[1].write = "write_fails" /\ ~saves[1].existed /\ saves[1].ret = FALSE
    /\ saves[2].fname = saves[1].fname /\ saves[2].existed /\ saves[2].ret = TRUE
    /\ files[saves[1].fname] = PartialContent

\* C17: when the page fetched last matched none of the container selectors,
\* the result of extract_single_article has success = false and a rendered
\* message as content; no URL is in the processed set with the
\* container-absent document, and no file holds that document.
C17_ContainerAbsentIsFailure ==
    /\ (extract_result.url # NoUrl /\ page.net = "ok_html" /\ ~page.container) =>
           /\ ~extract_result.success
           /\ extract_result.content # EmptyContent
           /\ extract_result.content.body.kind = "message"
    /\ \A u \in processed_articles : extracted[u].body.msg # "no_container"
    /\ \A f \in DOMAIN files : files[f].body.msg # "no_container"

\* the call has returned for a page that was fetched and whose container was
\* found, without an exception on the way
ContainerFound ==
    /\ extract_result.url # NoUrl
    /\ page.net = "ok_html" /\ page.container /\ ~page.raises

\* the content is the document that reports that nothing could be extracted
IsNoContentDocument(content) == content.body.kind = "message" /\ content.body.msg = "no_content"

\* C18: when the container is found and no body block survives, the result is
\* a failure whose content is the error document, with or without metadata
\* header and with or without main image; when at least one body block
\* survives, the content is not that error document.
C18_NothingExtractableIsFailure ==
    ContainerFound =>
        /\ page.blocks = 0 =>
               /\ ~extract_result.success
               /\ IsNoContentDocument(extract_result.content)
        /\ page.blocks >= 1 => ~IsNoContentDocument(extract_result.content)

\* the fetch failed: no response, a status outside 2xx, or an empty body
FetchFailed == page.net \in {"request_error", "http_status_error", "ok_empty"}

\* C19: when extract_single_article has returned, its content is never empty;
\* after a failed fetch the result has success = false and the rendered
\* fetch-failure message as content, and after an exception in the body
\* extraction success = false and a rendered message as well.
C19_FetchFailureWellFormed ==
    extract_result.url # NoUrl =>
        /\ extract_result.content # EmptyContent
        /\ extract_result.content.body.kind \in {"message", "article"}
        /\ FetchFailed =>
               /\ ~extract_result.success
               /\ extract_result.content.body.kind = "message"
               /\ extract_result.content.body.msg = "fetch_failed"
        /\ (~FetchFailed /\ page.raises) =>
               /\ ~extract_result.success
               /\ extract_result.content.body.kind = "message"

\* C19 witness: the site answered with a status outside 2xx and the call
\* returned the failure result with the rendered message.
C19_Witness ==
    /\ extract_result.url = page.of
    /\ page.net = "http_status_error"
    /\ ~extract_result.success
    /\ extract_result.content = FetchFailureContent

\* C20 (as stated): a call of start() that found the scheduler running left
\* the cron refresh job, the interval process job and the one-shot immediate
\* refresh armed.
C20_RestartRearms ==
    (last_call.op = "start" /\ last_call.running) => (running /\ jobs = SetToBag(JobIds))

\* C20: a call of start() that found the scheduler running changed nothing:
\* the scheduler runs on with the jobs it had, and a one-shot refresh that has
\* fired is not armed again; a call that found it stopped armed the three
\* jobs and started it.
C20_StartWhileRunningIsNoOp ==
    last_call.op = "start" =>
        /\ running
        /\ jobs = IF last_call.running THEN last_call.jobs ELSE SetToBag(JobIds)

\* C20 witness: start() was called on a running scheduler whose one-shot
\* refresh had fired, and the one-shot refresh is still not armed.
C20_Witness ==
    /\ last_call.op = "start" /\ last_call.running
    /\ running
    /\ jobs = SetToBag(JobIds \ {"initial_fetch"})
    /\ tasks # EmptyBag

\* C21: after any sequence of calls of start() and shutdown(), with the jobs
\* firing between them, at most one cron refresh job, at most one interval
\* process job and at most one pending one-shot refresh job are armed.
C21_NeverDoubleArmed == \A id \in JobIds : CopiesIn(id, jobs) <= 1

\* C21 witness: start() was called after at least two earlier calls and the
\* three jobs are armed, one of each.
C21_Witness ==
    /\ last_call.op = "start" /\ last_call.n >= 3
    /\ running
    /\ \A id \in JobIds : CopiesIn(id, jobs) = 1

C23_StoppedShutdownIsNoOp ==
    (found.op = "shutdown" /\ ~found.running) =>
        /\ article_queue = found.queue
        /\ current_index = found.cursor
        /\ processed_articles = found.processed

\* C23: shutdown() called on a scheduler that is not running returns (it
\* raises nothing) with the queue empty; the scheduler is still stopped with
\* no job armed, and cursor, processed set and coroutines are as found.
C23_StoppedShutdownClearsQueue ==
    (found.op = "shutdown" /\ ~found.running) =>
        /\ article_queue = <<>>
        /\ ~running /\ jobs = found.jobs
        /\ current_index = found.cursor
        /\ processed_articles = found.processed
        /\ tasks = found.tasks

\* C23 witness: shutdown() was called on a scheduler that had never been
\* started, after a manual refresh had queued stubs.
C23_Witness ==
    /\ found.op = "shutdown" /\ ~found.running /\ found.n = 1
    /\ found.queue # <<>>

\* coroutines suspended at the await of extract_single_article
InFlight(tk) == {r \in BagToSet(tk) : r.op = "process_next_article" /\ r.pc = "extract"}

SectionFailures == {"fetch_failed", "parse_failed", "empty"}

\* C25: a section that ends with a fetch failure, a parse failure or an
\* empty parse result does not end the refresh: when sections are left after
\* it, the next one is being fetched or has ended in its turn, and a later
\* section that parses has its unprocessed stubs appended.
C25_SectionIsolation ==
    \A i \in 1..Len(section_log) :
        LET e == section_log[i]
        IN  /\ (e.result \in SectionFailures /\ e.left > 0) =>
                  \/ i < Len(section_log)
                  \/ /\ fetching_active
                     /\ \E r \in Live : /\ r.op = "fetch_article_list"
                                         /\ r.pc \in {"fetch_content", "parse_article_list"}
                                         /\ r.left = e.left
            /\ e.result = "parsed" =>
                  \E sh \in Shuffles(e.parsed) :
                      e.appended = NewArticles(Truncate(sh), e.done)

\* C25 witness: the first section of a refresh failed and the second one was
\* fetched and parsed, and its stubs were appended.
C25_Witness ==
    /\ Len(section_log) = 2
    /\ section_log[1].result \in SectionFailures
    /\ section_log[2].result = "parsed"
    /\ section_log[2].appended # <<>>
    /\ article_queue = section_log[2].appended

\* C26: every stub a step appends to the queue has a URL that is not in the
\* processed set at that step.
C26_AppendsOnlyUnprocessed ==
    [][\A i \in 1..Len(article_queue') :
          i > Len(article_queue) => article_queue'[i] \notin processed_articles']_vars

\* C26 witness: a refresh is between two sections with a URL processed, and
\* the queue holds stubs, none of them with a processed URL.
C26_Witness ==
    /\ \E r \in Live : r.op = "fetch_article_list" /\ r.pc = "fetch_content"
    /\ processed_articles # {}
    /\ article_queue # <<>>
    /\ Range(article_queue) \cap processed_articles = {}

\* C27 (as stated): the stubs one section appends are at most the count that
\* scheduler.yaml sets, and at most the stubs that were parsed.
C27_BoundedByConfiguredCount ==
    \A i \in 1..Len(section_log) :
        Len(section_log[i].appended)
            <= Min(article_fetch.max_fetch_count, Len(section_log[i].parsed))

\* C28 (as stated): a semaphore of fixed size, shared by all callers, bounds
\* the downloads in progress: when more calls are made than it has permits
\* one of them waits, so the calls are never all in progress together (the
\* size is taken one below the number of calls of the run).
C28_DownloadsBounded == Cardinality(Downloading) < MaxDownloads

\* the calls that sent a GET request for the URL
Fetches(url) == {i \in 1..Len(downloads) : downloads[i].url = url /\ downloads[i].requested}

\* the calls for the URL that opened its file in the directory for writing
Writers(url, save_dir) ==
    {i \in 1..Len(downloads) : /\ downloads[i].url = url
                                /\ downloads[i].dir = save_dir
                                /\ downloads[i].wrote > 0}

\* C29 (as stated): whatever the interleaving of the calls, an image URL is
\* requested over the network by at most one call of a run and its file is
\* written by at most one call.
C29_DownloadOnce ==
    \A url \in ImageURLs :
        /\ Cardinality(Fetches(url)) <= 1
        /\ \A save_dir \in SaveDirs : Cardinality(Writers(url, save_dir)) <= 1

\* C30: a call that finds the file of its URL in its save directory returns
\* at once with success and the path hash-plus-extension under that
\* directory (a value of the URL and the directory alone, whatever the other
\* calls and files are), sends no request and leaves every file as it is.
C30_CacheHit ==
    [][Len(downloads') > Len(downloads) =>
          LET c == downloads'[Len(downloads')]
              filepath == Filepath(c.url, c.dir)
          IN  (~Blank(c.url) /\ filepath \in DOMAIN disk) =>
                  /\ c.pc = "done"
                  /\ c.ret = Ret(TRUE, filepath, "none")
                  /\ ~c.requested /\ c.wrote = 0
                  /\ disk' = disk]_vars

\* C30 witness: a call downloaded the image without an extension and wrote
\* it as hash.jpg; the next call for the URL returned that path with no
\* request sent.
C30_Witness ==
    /\ Len(downloads) = 2
    /\ downloads[1].url = "http://h/b" /\ downloads[2].url = "http://h/b"
    /\ downloads[1].dir = downloads[2].dir
    /\ downloads[1].requested /\ downloads[1].wrote = 1
    /\ downloads[2].pc = "done" /\ ~downloads[2].requested
    /\ downloads[2].ret.ok
    /\ downloads[2].ret.path = [dir |-> downloads[2].dir, hash |-> url_hash("http://h/b"),
                                 ext |-> ".jpg"]
    /\ downloads[2].ret.path \in DOMAIN disk

\* the calls that ended without an image fetched: timeout or transport error,
\* a status that is not 200, an empty body, bytes that PIL does not decode
FetchFailures ==
    {i \in 1..Len(downloads) :
        /\ downloads[i].pc = "done" /\ downloads[i].requested
        /\ \/ downloads[i].ret.error \in
                  {"TimeoutError", "ClientError", "HTTP error", "Empty response"}
           \/ downloads[i].body = "bytes"}

\* C31 (as stated): for every failure kind of the image fetch (timeout,
\* status other than 200, empty body, decode error) localization yields the
\* image URL as given, not a local path.
C31_FallbackToRemoteUrl ==
    \A i \in FetchFailures :
        localize(downloads[i]) = [local |-> FALSE, path |-> NoPath, url |-> downloads[i].url]

\* C38 (as stated): a call that ended without a usable image has created no
\* file, so no file is at the URL's path that was not there before the call.
C38_FailureLeavesNoFile ==
    \A i \in 1..Len(downloads) :
        (i \in FetchFailures \/ (downloads[i].pc = "done" /\ ~downloads[i].ret.ok)) =>
            downloads[i].wrote = 0

\* C32: only a JPEG whose first encoding exceeds max_file_size is encoded
\* again; every further encoding is at the quality of the one before less
\* 10; the encodings made are fewer than the steps of 10 between the initial
\* quality and 30, and the loop can always take its next step until the file
\* is written; when it is written the last encoding is at most max_file_size
\* or its quality is at most 40, and the bytes written are the last encoding.
C32_QualityStepping ==
    LET n == Len(encoder.encodings)
    IN  /\ \A k \in 2..n :
              encoder.encodings[k].quality = encoder.encodings[k - 1].quality - 10
        /\ n >= 2 => /\ encoder.format = "JPEG"
                      /\ encoder.encodings[1].size > encoder.max_file_size
        /\ n >= 2 => 10 * (n - 1) < encoder.quality - 30
        /\ encoder.pc \in {"start", "loop", "write"} => ENABLED NextQuality
        /\ encoder.pc = "written" =>
              /\ encoder.written = n
              /\ \/ encoder.format # "JPEG"
                 \/ LastSize(encoder) <= encoder.max_file_size
                 \/ encoder.encodings[n].quality <= 40

\* C32 witness: a JPEG at quality 85 came out above max_file_size, was
\* encoded again at 75 and at 65, fitted, and the encoding at 65 was written.
C32_Witness ==
    /\ encoder.pc = "written" /\ encoder.format = "JPEG" /\ encoder.quality = 85
    /\ Len(encoder.encodings) = 3
    /\ encoder.encodings[2].size > encoder.max_file_size
    /\ encoder.encodings[3] = Encoding(65, 1)
    /\ encoder.written = 3

\* C37 (as stated): no JPEG is encoded at a quality below 40 unless the
\* quality the call was given is below 40.
C37_QualityFloor ==
    \A k \in 1..Len(encoder.encodings) :
        encoder.encodings[k].quality >= 40 \/ encoder.quality < 40

\* coroutines suspended in save_article for the URL
Saving(u) == {r \in Live : r.op = "process_next_article" /\ r.pc = "save_article" /\ r.url = u}

\* C33 (as stated): whatever the interleaving of process_next_article
\* executions, no URL is being extracted or stored by more than one of them
\* at the same time.
C33_NoDoubleExtraction ==
    \A u \in URLs :
        Count(Extracting(u)) + BagCardinality([r \in Saving(u) |-> tasks[r]]) <= 1

RECURSIVE AppendedFrom(_)
\* the number of stubs the sections i and later of the log appended
AppendedFrom(i) ==
    IF i > Len(section_log) THEN 0
    ELSE Len(section_log[i].appended) + AppendedFrom(i + 1)

\* the queue as section i of the log found it
QueueBefore(i) == SubSeq(article_queue, 1, Len(article_queue) - AppendedFrom(i))

\* C34 (as stated): a section whose parsed stubs are all in the queue
\* already, none of them processed, appends nothing.
C34_QueueDoesNotLeak ==
    \A i \in 1..Len(section_log) :
        (/\ section_log[i].result = "parsed"
         /\ Range(section_log[i].parsed) \subseteq Range(QueueBefore(i))
         /\ Range(section_log[i].parsed) \cap section_log[i].done = {}) =>
            section_log[i].appended = <<>>

\* C35 (as stated): when the coroutines that shutdown() found suspended at
\* an await have ended, the queue is empty and the processed set holds no URL
\* that was not in it when shutdown() returned.
C35_ShutdownIsFinal ==
    (found.op = "drained" /\ \A r \in BagToSet(found.tasks) : r.pc # "pending") =>
        /\ article_queue = <<>>
        /\ processed_articles \subseteq found.processed

\* this step is a step of a fetch_article_list coroutine
RefreshStep ==
    \E r \in Live : r.op = "fetch_article_list" /\ Count(r)' < Count(r)

\* C39: a step of fetch_article_list leaves the cursor, the processed set,
\* the scheduler and its jobs as they are and the queue as a prefix of the
\* queue after the step: it only appends (and sets or clears the flag).
C39_RefreshOnlyAppends ==
    [][RefreshStep =>
          /\ current_index' = current_index
          /\ processed_articles' = processed_articles
          /\ Len(article_queue') >= Len(article_queue)
          /\ SubSeq(article_queue', 1, Len(article_queue)) = article_queue
          /\ running' = running /\ jobs' = jobs
          /\ saved_ok' = saved_ok]_vars

\* C39 witness: a refresh is between two sections, having appended to a queue
\* that a process run has taken a stub from and marked processed.
C39_Witness ==
    /\ \E r \in Live : r.op = "fetch_article_list" /\ r.pc = "fetch_content"
    /\ Len(article_queue) >= 2
    /\ current_index = 1
    /\ processed_articles = {article_queue[1]}

\* the calls of save_article that wrote the whole of their content to fname
SaveWriters(fname) == {i \in DOMAIN saving : saving[i].fname = fname /\ saving[i].wrote}

\* C36 (as stated): of the calls of save_article that derive one file name,
\* overlapping or not, at most one writes the file.
C36_WrittenOnce ==
    \A i \in DOMAIN saving : Cardinality(SaveWriters(saving[i].fname)) <= 1

\* C40 (as stated): the title decoded from the file name that was encoded
\* for a title that is not blank, with or without an id, is that title.
C40_RoundTrip ==
    (codec.pc = "decoded" /\ ~IsBlankTitle(codec.title)) => codec.decoded = codec.title

====
